---- MODULE Spec2Model ----
(***************************************************************************)
(* Model of the influx client library core: the Measurement data model and *)
(* its line-protocol encoder (src/src/lib.rs) and the Flux query builder   *)
(* (src/src/query.rs).                                                     *)
(*                                                                         *)
(* Text is modelled as a sequence of characters, every character being a   *)
(* one-character string, so that escaping, formatting and joining are      *)
(* computed character by character as the code computes them.              *)
(* Option<T> is modelled as a sequence: None is <<>>, Some(x) is <<x>>.    *)
(***************************************************************************)
EXTENDS Integers, Sequences, FiniteSets, TLC

VARIABLES
    builder,    \* Option<MeasurementBuilder>: [name, tags, fields, timestamp]
    m,          \* Option<Measurement>: [measurement_name, timestamp_ms, tags, fields]
    result,     \* outcome of MeasurementBuilder::build: "none", "Ok", "EmptyFields", "SystemTimeError"
    line,       \* Option<String>: value returned by the last to_line_protocol call
    adds,       \* number of add_tag / add_field calls made on the built Measurement
    ts_arg,     \* Option<u128>: argument of the last timestamp_ms call on the builder
    clock_read, \* TRUE once build has evaluated SystemTime::now()
    last_add,   \* Option<[map, name, tag_value, field_value]>: the arguments of the last add_tag / add_field call
    iter_order, \* Option<[tags, fields]>: the order in which the Measurement's two maps, as they are now, yield their keys
    tv_in,      \* Option<String>: argument handed to TagValue::new
    tv_out,     \* Option<String>: TagValue returned for tv_in
    f_in,       \* Option<Field>: the Field handed to Display
    f_out,      \* Option<String>: text written by Display for f_in
    native,     \* Option<native value>: the argument handed to Field::from
    raw_out,    \* Option<Query>: the client-side Query that Query::raw returned for the text q_out
    query,      \* Option<Query>: [lines]; None once a panic has dropped it
    panicked,   \* TRUE once a call on the Query has panicked
    q_out,      \* Option<String>: text returned by to_string on the Query as it is now
    calls       \* the append calls made on the Query so far, in order: [op, f, text]

mvars == <<builder, m, result, line, adds, ts_arg, clock_read, iter_order, last_add>>
pvars == <<tv_in, tv_out, f_in, f_out, native, raw_out>>
qvars == <<query, panicked, q_out, calls>>
vars == <<builder, m, result, line, adds, ts_arg, clock_read, iter_order, last_add,
          tv_in, tv_out, f_in, f_out, native, raw_out,
          query, panicked, q_out, calls>>

----------------------------------------------------------------------------
(* Characters and text helpers *)

NL == "\n"
BS == "\\"
DQ == "\""

None == <<>>
Some(x) == <<x>>

RECURSIVE join(_, _)
\* [String]::join(sep)
join(ss, sep) ==
    IF ss = <<>> THEN <<>>
    ELSE IF Len(ss) = 1 THEN ss[1]
    ELSE ss[1] \o sep \o join(Tail(ss), sep)

RECURSIVE replace(_, _, _)
\* str::replace(from: char, to: &str): every occurrence of the character
replace(s, from, to) ==
    IF s = <<>> THEN <<>>
    ELSE (IF Head(s) = from THEN to ELSE <<Head(s)>>) \o replace(Tail(s), from, to)

Digits == <<"0", "1", "2", "3", "4", "5", "6", "7", "8", "9">>

RECURSIVE fmt_unsigned(_)
\* Display of an unsigned integer: its decimal digits, no leading zero
fmt_unsigned(n) ==
    IF n < 10 THEN <<Digits[n + 1]>>
    ELSE fmt_unsigned(n \div 10) \o <<Digits[(n % 10) + 1]>>

\* Display of a signed integer: '-' and the digits of the magnitude
fmt_signed(n) == IF n < 0 THEN <<"-">> \o fmt_unsigned(-n) ELSE fmt_unsigned(n)

\* Display of bool
fmt_bool(b) == IF b THEN <<"t", "r", "u", "e">> ELSE <<"f", "a", "l", "s", "e">>

\* Display of f64.  A finite value is held as sign, integer part and the
\* fractional digits of its shortest decimal form; the other classes are
\* NaN and the infinities.
fmt_f64(v) ==
    IF v.class = "nan" THEN <<"N", "a", "N">>
    ELSE IF v.class = "inf" THEN (IF v.neg THEN <<"-">> ELSE <<>>) \o <<"i", "n", "f">>
    ELSE (IF v.neg THEN <<"-">> ELSE <<>>)
         \o fmt_unsigned(v.int)
         \o (IF v.frac = <<>> THEN <<>> ELSE <<".">> \o v.frac)

\* the parts of the state a specification does not use stay at these values
NoMeasurement ==
    /\ builder = None /\ m = None /\ result = "none" /\ line = None /\ adds = 0
    /\ ts_arg = None /\ clock_read = FALSE /\ iter_order = None /\ last_add = None
NoPure ==
    /\ tv_in = None /\ tv_out = None /\ f_in = None /\ f_out = None /\ native = None
    /\ raw_out = None
NoQuery == query = None /\ panicked = FALSE /\ q_out = None /\ calls = <<>>

----------------------------------------------------------------------------
(* lib.rs: TagValue, Field *)

TagValue_new_noSpace(s) ==
    replace(replace(s, ",", <<BS, ",">>), "=", <<BS, "=">>)

\* TagValue::new
TagValue_new(s) ==
    replace(replace(replace(s, ",", <<BS, ",">>), "=", <<BS, "=">>), " ", <<BS, " ">>)

\* enum Field.  A value is its variant (kind) and the variant's payload; the
\* payload slots a variant does not use hold fixed defaults, so that Field
\* values of different variants can be compared.
\*   Float: f is the f64;  String: s;  Bool: b;  Integer, UInteger: n
NoF64 == [class |-> "finite", neg |-> FALSE, int |-> 0, frac |-> <<>>]
F64(neg, int, frac) == [class |-> "finite", neg |-> neg, int |-> int, frac |-> frac]
F64NaN == [class |-> "nan", neg |-> FALSE, int |-> 0, frac |-> <<>>]
F64Inf(neg) == [class |-> "inf", neg |-> neg, int |-> 0, frac |-> <<>>]
Float(v) == [kind |-> "Float", f |-> v, s |-> <<>>, b |-> FALSE, n |-> 0]
String(v) == [kind |-> "String", f |-> NoF64, s |-> v, b |-> FALSE, n |-> 0]
Bool(v) == [kind |-> "Bool", f |-> NoF64, s |-> <<>>, b |-> v, n |-> 0]
Integer(v) == [kind |-> "Integer", f |-> NoF64, s |-> <<>>, b |-> FALSE, n |-> v]
UInteger(v) == [kind |-> "UInteger", f |-> NoF64, s |-> <<>>, b |-> FALSE, n |-> v]

Field_fmt_suffixSwap(self) ==
    CASE self.kind = "Float" -> fmt_f64(self.f)
      [] self.kind = "String" -> <<DQ>> \o self.s \o <<DQ>>
      [] self.kind = "Bool" -> fmt_bool(self.b)
      [] self.kind = "Integer" -> fmt_signed(self.n) \o <<"u">>
      [] self.kind = "UInteger" -> fmt_unsigned(self.n) \o <<"u">>

\* impl Display for Field
Field_fmt(self) ==
    CASE self.kind = "Float" -> fmt_f64(self.f)
      [] self.kind = "String" -> <<DQ>> \o self.s \o <<DQ>>
      [] self.kind = "Bool" -> fmt_bool(self.b)
      [] self.kind = "Integer" -> fmt_signed(self.n) \o <<"i">>
      [] self.kind = "UInteger" -> fmt_unsigned(self.n) \o <<"u">>

\* a native value handed to Field::from: its type and, as for Field, one
\* payload slot per kind of type (integers: n;  floats: f;  bool: b;  text: s)
NativeInt(ty, v) == [ty |-> ty, f |-> NoF64, s |-> <<>>, b |-> FALSE, n |-> v]
NativeFloat(ty, v) == [ty |-> ty, f |-> v, s |-> <<>>, b |-> FALSE, n |-> 0]
NativeBool(v) == [ty |-> "bool", f |-> NoF64, s |-> <<>>, b |-> v, n |-> 0]
NativeText(ty, v) == [ty |-> ty, f |-> NoF64, s |-> v, b |-> FALSE, n |-> 0]

\* impl_uint!: Field::UInteger(v as u128); the cast widens an unsigned value
\* by zero extension, which keeps the number
impl_uint(v) == UInteger(v.n)

\* impl_int!: Field::Integer(v as i128); the cast widens a signed value by
\* sign extension, which keeps the number
impl_int(v) == Integer(v.n)

\* impl_float!: Field::Float(v as f64); every f32 is an f64
impl_float(v) == Float(v.f)

Field_from_u16Signed(v) ==
    CASE v.ty \in { "u8", "u32", "u64", "u128" } -> impl_uint(v)
      [] v.ty \in { "i8", "i16", "i32", "i64", "i128", "u16" } -> impl_int(v)
      [] v.ty \in { "f32", "f64" } -> impl_float(v)
      [] v.ty = "bool" -> Bool(v.b)
      [] v.ty = "String" -> String(v.s)
      [] v.ty = "&str" -> String(v.s)

\* the impls of From<T> for Field: the macro invocations and the three
\* hand-written impls
Field_from(v) ==
    CASE v.ty \in { "u8", "u16", "u32", "u64", "u128" } -> impl_uint(v)
      [] v.ty \in { "i8", "i16", "i32", "i64", "i128" } -> impl_int(v)
      [] v.ty \in { "f32", "f64" } -> impl_float(v)
      [] v.ty = "bool" -> Bool(v.b)
      [] v.ty = "String" -> String(v.s)
      [] v.ty = "&str" -> String(v.s)

----------------------------------------------------------------------------
(* lib.rs: Measurement and MeasurementBuilder *)

MaxTags == 2        \* bound on the number of tag() calls on a builder
MaxFields == 2      \* bound on the number of field() calls on a builder
MaxAdds == 1        \* bound on the number of add_tag / add_field calls

MeasurementNames == { <<"m", "1">>, <<"a", NL, "b">> }
TagNames == { <<"t", "a", "g", "1">>, <<"t", "2">> }
TagInputs == { <<"v", "1">>, <<"a", ",", " ", "b", "=", "c">> }
FieldNames == { <<"f", "1">>, <<"f", "2">> }
FieldInputs == { Bool(TRUE), String(<<"a", NL, "b">>), Integer(-100) }
Timestamps == { 1000, 5 }
\* SystemTime::now().duration_since(UNIX_EPOCH): Ok(duration) or Err
ClockOutcomes == { Some(1700), None }

\* the empty HashMap
EmptyMap == [k \in {} |-> <<>>]

insert_ifAbsent(map, k, v) ==
    [x \in (DOMAIN map) \cup {k} |-> IF x \in DOMAIN map THEN map[x] ELSE v]

\* HashMap::insert: adds the entry or overwrites the entry of that key
insert(map, k, v) == [x \in (DOMAIN map) \cup {k} |-> IF x = k THEN v ELSE map[x]]

RECURSIVE collect(_)
\* Vec<(K, V)>::into_iter().collect::<HashMap<K, V>>(): inserts in order
collect(pairs) ==
    IF pairs = <<>> THEN EmptyMap
    ELSE LET n == Len(pairs)
         IN  insert(collect(SubSeq(pairs, 1, n - 1)), pairs[n][1], pairs[n][2])

\* the orders in which HashMap::iter may yield the keys of a map; which one
\* it is depends on the hasher and the table and is fixed while the map is
\* not changed
IterOrders(map) ==
    { o \in [1 .. Cardinality(DOMAIN map) -> DOMAIN map] :
        \A i, j \in DOMAIN o : i # j => o[i] # o[j] }

\* MeasurementBuilder::new, reached through Measurement::builder
MeasurementBuilder_new(measurement_name) ==
    [name |-> measurement_name, tags |-> <<>>, fields |-> <<>>, timestamp |-> None]

\* Measurement::new
Measurement_new(measurement_name, timestamp_ms_, tags, fields) ==
    [measurement_name |-> measurement_name, timestamp_ms |-> timestamp_ms_,
     tags |-> tags, fields |-> fields]

\* Measurement::measurement_part
measurement_part(self) == self.measurement_name

tags_part_spaced(self, order) ==
    join([i \in DOMAIN order |-> order[i] \o <<"=">> \o self.tags[order[i]]], <<",", " ">>)

\* Measurement::tags_part, the map iterated in the order `order`
tags_part(self, order) ==
    join([i \in DOMAIN order |-> order[i] \o <<"=">> \o self.tags[order[i]]], <<",">>)

\* Measurement::fields_part, the map iterated in the order `order`
fields_part(self, order) ==
    join([i \in DOMAIN order |-> order[i] \o <<"=">> \o Field_fmt(self.fields[order[i]])], <<",">>)

to_line_protocol_seconds(self, tag_order, field_order) ==
    IF DOMAIN self.tags = {}
    THEN measurement_part(self) \o <<" ">> \o fields_part(self, field_order)
         \o <<" ">> \o fmt_unsigned(self.timestamp_ms \div 1000)
    ELSE measurement_part(self) \o <<",">> \o tags_part(self, tag_order)
         \o <<" ">> \o fields_part(self, field_order)
         \o <<" ">> \o fmt_unsigned(self.timestamp_ms \div 1000)

\* Measurement::to_line_protocol
to_line_protocol(self, tag_order, field_order) ==
    IF DOMAIN self.tags = {}
    THEN measurement_part(self) \o <<" ">> \o fields_part(self, field_order)
         \o <<" ">> \o fmt_unsigned(self.timestamp_ms)
    ELSE measurement_part(self) \o <<",">> \o tags_part(self, tag_order)
         \o <<" ">> \o fields_part(self, field_order)
         \o <<" ">> \o fmt_unsigned(self.timestamp_ms)

\* MeasurementBuilder::tag
tag ==
    /\ builder # None
    /\ Len(builder[1].tags) < MaxTags
    /\ \E name \in TagNames, value \in TagInputs :
         builder' = Some([builder[1] EXCEPT
                            !.tags = Append(@, <<name, TagValue_new(value)>>)])
    /\ UNCHANGED <<m, result, line, adds, ts_arg, clock_read, iter_order, last_add, pvars, qvars>>

\* MeasurementBuilder::field
field ==
    /\ builder # None
    /\ Len(builder[1].fields) < MaxFields
    /\ \E name \in FieldNames, value \in FieldInputs :
         builder' = Some([builder[1] EXCEPT !.fields = Append(@, <<name, value>>)])
    /\ UNCHANGED <<m, result, line, adds, ts_arg, clock_read, iter_order, last_add, pvars, qvars>>

\* MeasurementBuilder::timestamp_ms
timestamp_ms ==
    /\ builder # None
    /\ \E t \in Timestamps :
         /\ builder' = Some([builder[1] EXCEPT !.timestamp = Some(t)])
         /\ ts_arg' = Some(t)
    /\ UNCHANGED <<m, result, line, adds, clock_read, iter_order, last_add, pvars, qvars>>

build_noCheck ==
    /\ builder # None
    /\ LET self == builder[1] IN
           IF FALSE
           THEN result' = "EmptyFields" /\ m' = None /\ clock_read' = FALSE
           ELSE IF self.timestamp # None
           THEN /\ result' = "Ok"
                /\ m' = Some(Measurement_new(self.name, self.timestamp[1],
                               collect(self.tags), collect(self.fields)))
                /\ clock_read' = FALSE
           ELSE \E clock \in ClockOutcomes :
                  /\ clock_read' = TRUE
                  /\ IF clock = None
                     THEN result' = "SystemTimeError" /\ m' = None
                     ELSE /\ result' = "Ok"
                          /\ m' = Some(Measurement_new(self.name, clock[1],
                                         collect(self.tags), collect(self.fields)))
    /\ IF m' = None THEN iter_order' = None
       ELSE \E tag_order \in IterOrders(m'[1].tags), field_order \in IterOrders(m'[1].fields) :
              iter_order' = Some([tags |-> tag_order, fields |-> field_order])
    /\ builder' = None
    /\ UNCHANGED <<line, adds, ts_arg, last_add, pvars, qvars>>

build_checkTags ==
    /\ builder # None
    /\ LET self == builder[1] IN
           IF self.tags = <<>>
           THEN result' = "EmptyFields" /\ m' = None /\ clock_read' = FALSE
           ELSE IF self.timestamp # None
           THEN /\ result' = "Ok"
                /\ m' = Some(Measurement_new(self.name, self.timestamp[1],
                               collect(self.tags), collect(self.fields)))
                /\ clock_read' = FALSE
           ELSE \E clock \in ClockOutcomes :
                  /\ clock_read' = TRUE
                  /\ IF clock = None
                     THEN result' = "SystemTimeError" /\ m' = None
                     ELSE /\ result' = "Ok"
                          /\ m' = Some(Measurement_new(self.name, clock[1],
                                         collect(self.tags), collect(self.fields)))
    /\ IF m' = None THEN iter_order' = None
       ELSE \E tag_order \in IterOrders(m'[1].tags), field_order \in IterOrders(m'[1].fields) :
              iter_order' = Some([tags |-> tag_order, fields |-> field_order])
    /\ builder' = None
    /\ UNCHANGED <<line, adds, ts_arg, last_add, pvars, qvars>>

build_clockFirst ==
    /\ builder # None
    /\ LET self == builder[1] IN
           IF self.fields = <<>>
           THEN result' = "EmptyFields" /\ m' = None /\ clock_read' = FALSE
           ELSE \E clock \in ClockOutcomes :
                  /\ clock_read' = TRUE
                  /\ IF clock = None
                     THEN result' = "SystemTimeError" /\ m' = None
                     ELSE /\ result' = "Ok"
                          /\ m' = Some(Measurement_new(self.name,
                                         IF self.timestamp # None THEN self.timestamp[1]
                                         ELSE clock[1],
                                         collect(self.tags), collect(self.fields)))
    /\ IF m' = None THEN iter_order' = None
       ELSE \E tag_order \in IterOrders(m'[1].tags), field_order \in IterOrders(m'[1].fields) :
              iter_order' = Some([tags |-> tag_order, fields |-> field_order])
    /\ builder' = None
    /\ UNCHANGED <<line, adds, ts_arg, last_add, pvars, qvars>>

\* MeasurementBuilder::build: consumes the builder; the clock is read only when
\* the field list is not empty and no timestamp was supplied
build ==
    /\ builder # None
    /\ LET self == builder[1] IN
           IF self.fields = <<>>
           THEN result' = "EmptyFields" /\ m' = None /\ clock_read' = FALSE
           ELSE IF self.timestamp # None
           THEN /\ result' = "Ok"
                /\ m' = Some(Measurement_new(self.name, self.timestamp[1],
                               collect(self.tags), collect(self.fields)))
                /\ clock_read' = FALSE
           ELSE \E clock \in ClockOutcomes :
                  /\ clock_read' = TRUE
                  /\ IF clock = None
                     THEN result' = "SystemTimeError" /\ m' = None
                     ELSE /\ result' = "Ok"
                          /\ m' = Some(Measurement_new(self.name, clock[1],
                                         collect(self.tags), collect(self.fields)))
    /\ IF m' = None THEN iter_order' = None
       ELSE \E tag_order \in IterOrders(m'[1].tags), field_order \in IterOrders(m'[1].fields) :
              iter_order' = Some([tags |-> tag_order, fields |-> field_order])
    /\ builder' = None
    /\ UNCHANGED <<line, adds, ts_arg, last_add, pvars, qvars>>

\* Measurement::add_field
add_field ==
    /\ m # None
    /\ adds < MaxAdds
    /\ \E name \in FieldNames, value \in FieldInputs :
         /\ m' = Some([m[1] EXCEPT !.fields = insert(@, name, value)])
         /\ last_add' = Some([map |-> "fields", name |-> name, tag_value |-> <<>>,
                               field_value |-> value])
    /\ \E field_order \in IterOrders(m'[1].fields) :
         iter_order' = Some([iter_order[1] EXCEPT !.fields = field_order])
    /\ adds' = adds + 1
    /\ UNCHANGED <<builder, result, line, ts_arg, clock_read, pvars, qvars>>

add_tag_raw ==
    /\ m # None
    /\ adds < MaxAdds
    /\ \E name \in TagNames, value \in TagInputs :
         /\ m' = Some([m[1] EXCEPT !.tags = insert(@, name, value)])
         /\ last_add' = Some([map |-> "tags", name |-> name, tag_value |-> value,
                               field_value |-> Bool(FALSE)])
    /\ \E tag_order \in IterOrders(m'[1].tags) :
         iter_order' = Some([iter_order[1] EXCEPT !.tags = tag_order])
    /\ adds' = adds + 1
    /\ UNCHANGED <<builder, result, line, ts_arg, clock_read, pvars, qvars>>

\* Measurement::add_tag
add_tag ==
    /\ m # None
    /\ adds < MaxAdds
    /\ \E name \in TagNames, value \in TagInputs :
         /\ m' = Some([m[1] EXCEPT !.tags = insert(@, name, TagValue_new(value))])
         /\ last_add' = Some([map |-> "tags", name |-> name, tag_value |-> value,
                               field_value |-> Bool(FALSE)])
    /\ \E tag_order \in IterOrders(m'[1].tags) :
         iter_order' = Some([iter_order[1] EXCEPT !.tags = tag_order])
    /\ adds' = adds + 1
    /\ UNCHANGED <<builder, result, line, ts_arg, clock_read, pvars, qvars>>

render_line_needsTags ==
    /\ m # None
    /\ DOMAIN m[1].tags # {}
    /\ line' = Some(to_line_protocol(m[1], iter_order[1].tags, iter_order[1].fields))
    /\ UNCHANGED <<builder, m, result, adds, ts_arg, clock_read, iter_order, last_add, pvars, qvars>>

render_line_anyOrder ==
    /\ m # None
    /\ \E tag_order \in IterOrders(m[1].tags), field_order \in IterOrders(m[1].fields) :
         line' = Some(to_line_protocol(m[1], tag_order, field_order))
    /\ UNCHANGED <<builder, m, result, adds, ts_arg, clock_read, iter_order, last_add, pvars, qvars>>

\* a caller invoking Measurement::to_line_protocol (as InfluxClient::write
\* does): &self, the maps are iterated in the order they yield as they are
render_line ==
    /\ m # None
    /\ line' = Some(to_line_protocol(m[1], iter_order[1].tags, iter_order[1].fields))
    /\ UNCHANGED <<builder, m, result, adds, ts_arg, clock_read, iter_order, last_add, pvars, qvars>>

\* Measurement::builder(name) with no call made on the builder yet
Init ==
    /\ \E name \in MeasurementNames : builder = Some(MeasurementBuilder_new(name))
    /\ m = None
    /\ result = "none"
    /\ line = None
    /\ adds = 0
    /\ ts_arg = None
    /\ clock_read = FALSE
    /\ iter_order = None
    /\ last_add = None
    /\ NoPure
    /\ NoQuery

Next ==
    \/ tag
    \/ field
    \/ timestamp_ms
    \/ build
    \/ add_field
    \/ add_tag
    \/ render_line

Spec == Init /\ [][Next]_vars

----------------------------------------------------------------------------
(* Properties of the Measurement model *)

\* C1: build returns the EmptyFields error and no Measurement whenever the
\* builder's field list is empty, whatever name, tags and timestamp it holds.
C1_EmptyFieldsAlwaysFails ==
    [][ (builder # None /\ builder' = None /\ builder[1].fields = <<>>)
          => (result' = "EmptyFields" /\ m' = None) ]_vars

\* build has rejected a builder (only an empty field list is rejected this way)
C1_Witness == builder = None /\ result = "EmptyFields" /\ m = None

\* C2: every existing Measurement has at least one field, also after
\* add_field / add_tag calls on the built value.
C2_MeasurementHasField == m # None => DOMAIN m[1].fields # {}

\* a built Measurement that went through add_tag / add_field calls
C2_Witness == m # None /\ adds = MaxAdds /\ DOMAIN m[1].tags # {}

\* C3: to_line_protocol returns exactly one line: the text has no embedded
\* newline character, for arbitrary name, tag values and String field values.
C3_SingleLine ==
    line # None => /\ line[1] # <<>>
                   /\ \A i \in DOMAIN line[1] : line[1][i] # NL

----------------------------------------------------------------------------
(* TagValue::new as a pure function: SpecEscape applies it to every input *)

MaxLen == 3         \* bound on the length of the texts handed to TagValue::new

EscapeAlphabet == { ",", "=", " ", BS, "a", NL }

\* the texts over the alphabet up to a given length
TextsUpTo(alphabet, n) == UNION { [1 .. k -> alphabet] : k \in 0 .. n }

KHTML == <<"K", "H", "T", "M", "L", ",", " ", "l", "i", "k", "e", " ",
           "G", "e", "c", "k", "o">>
KHTML_escaped == <<"K", "H", "T", "M", "L", BS, ",", BS, " ", "l", "i", "k", "e", BS, " ",
                   "G", "e", "c", "k", "o">>

EscapeInputs == TextsUpTo(EscapeAlphabet, MaxLen) \cup { KHTML }

\* a caller constructing a TagValue (MeasurementBuilder::tag, Measurement::add_tag)
escape ==
    /\ tv_in # None
    /\ tv_out = None
    /\ tv_out' = Some(TagValue_new(tv_in[1]))
    /\ UNCHANGED <<mvars, tv_in, f_in, f_out, native, raw_out, qvars>>

InitEscape ==
    /\ \E s \in EscapeInputs : tv_in = Some(s)
    /\ tv_out = None
    /\ f_in = None /\ f_out = None /\ native = None /\ raw_out = None
    /\ NoMeasurement
    /\ NoQuery

NextEscape == escape

SpecEscape == InitEscape /\ [][NextEscape]_vars

Reserved == { ",", "=", " " }

RECURSIVE EscapedOnce(_)
\* every reserved character preceded by one backslash, in a single pass
EscapedOnce(s) ==
    IF s = <<>> THEN <<>>
    ELSE (IF Head(s) \in Reserved THEN <<BS, Head(s)>> ELSE <<Head(s)>>)
         \o EscapedOnce(Tail(s))

\* C4: TagValue::new puts exactly one backslash before every comma, equals
\* sign and space and leaves every other character (backslashes included)
\* unchanged; a text without reserved characters is returned unchanged, and
\* "KHTML, like Gecko" becomes KHTML\,\ like\ Gecko.
C4_TagEscaping ==
    tv_out # None =>
        /\ tv_out[1] = EscapedOnce(tv_in[1])
        /\ (\A i \in DOMAIN tv_in[1] : tv_in[1][i] \notin Reserved) => tv_out[1] = tv_in[1]
        /\ tv_in[1] = KHTML => tv_out[1] = KHTML_escaped

\* a text holding a space, a backslash and another reserved character was escaped
C4_Witness ==
    /\ tv_out # None
    /\ \E i, j, k \in DOMAIN tv_in[1] :
         tv_in[1][i] = " " /\ tv_in[1][j] = BS /\ tv_in[1][k] \in { ",", "=" }

----------------------------------------------------------------------------
(* Display for Field as a pure function: SpecField renders every input *)

MaxInt == 110       \* bound on the magnitude of the integer payloads

FieldTexts == { <<>>, <<"x">>, <<"a", DQ, "b">>, <<"s", " ", NL>> }
FieldFloats ==
    { F64(neg, int, frac) : neg \in BOOLEAN, int \in { 0, 1, 10, 123 },
                            frac \in { <<>>, <<"5">>, <<"1", "2", "3">> } }
    \cup { F64NaN, F64Inf(FALSE), F64Inf(TRUE) }

FieldValues ==
    { Integer(n) : n \in (0 - MaxInt) .. MaxInt }
    \cup { UInteger(n) : n \in 0 .. MaxInt }
    \cup { Bool(b) : b \in BOOLEAN }
    \cup { String(t) : t \in FieldTexts }
    \cup { Float(v) : v \in FieldFloats }

SignedTypes == { "i8", "i16", "i32", "i64", "i128" }
UnsignedTypes == { "u8", "u16", "u32", "u64", "u128" }
FloatTypes == { "f32", "f64" }

\* native values: the extremes of the 8 and 16 bit types, and for the wider
\* types values up to what the model's integers hold
NativeValues ==
    { NativeInt("i8", n) : n \in { -128, -1, 0, 1, 127 } }
    \cup { NativeInt("i16", n) : n \in { -32768, -129, 2, 32767 } }
    \cup { NativeInt(ty, n) : ty \in { "i32", "i64", "i128" },
                              n \in { -2000000000, -100, 0, 5, 2000000000 } }
    \cup { NativeInt("u8", n) : n \in { 0, 1, 128, 255 } }
    \cup { NativeInt("u16", n) : n \in { 2, 100, 32768, 65535 } }
    \cup { NativeInt(ty, n) : ty \in { "u32", "u64", "u128" }, n \in { 0, 5, 2000000000 } }
    \cup { NativeFloat("f32", F64(FALSE, 1, <<"5">>)) }
    \cup { NativeFloat("f64", v) : v \in { F64(FALSE, 2, <<"5">>), F64(TRUE, 0, <<>>), F64NaN } }
    \cup { NativeBool(b) : b \in BOOLEAN }
    \cup { NativeText(ty, t) : ty \in { "String", "&str" }, t \in { <<>>, <<"s">> } }

\* a caller converting a native value (MeasurementBuilder::field, add_field)
into_field ==
    /\ native # None
    /\ f_in = None
    /\ f_in' = Some(Field_from(native[1]))
    /\ UNCHANGED <<mvars, tv_in, tv_out, f_out, native, raw_out, qvars>>

\* a caller formatting a Field with "{}" (Measurement::fields_part)
display_field ==
    /\ f_in # None
    /\ f_out = None
    /\ f_out' = Some(Field_fmt(f_in[1]))
    /\ UNCHANGED <<mvars, tv_in, tv_out, f_in, native, raw_out, qvars>>

InitField ==
    /\ \/ native = None /\ \E f \in FieldValues : f_in = Some(f)
       \/ f_in = None /\ \E v \in NativeValues : native = Some(v)
    /\ f_out = None
    /\ tv_in = None /\ tv_out = None /\ raw_out = None
    /\ NoMeasurement
    /\ NoQuery

NextField ==
    \/ into_field
    \/ display_field

SpecField == InitField /\ [][NextField]_vars

DigitChars == { Digits[i] : i \in DOMAIN Digits }

IsDigits(s) == s # <<>> /\ \A i \in DOMAIN s : s[i] \in DigitChars

RECURSIVE DecimalValue(_)
\* the number a text of decimal digits denotes
DecimalValue(s) ==
    IF s = <<>> THEN 0
    ELSE 10 * DecimalValue(SubSeq(s, 1, Len(s) - 1))
         + (CHOOSE d \in 0 .. 9 : Digits[d + 1] = s[Len(s)])

Front(s) == SubSeq(s, 1, Len(s) - 1)

\* a text of the form [-]digits[.digits] whose parts denote the given value
IsDecimalOf(s, v) ==
    LET body == IF v.neg THEN Tail(s) ELSE s
        dots == { i \in DOMAIN body : body[i] = "." }
        ipart == IF dots = {} THEN body
                 ELSE SubSeq(body, 1, (CHOOSE i \in dots : TRUE) - 1)
        fpart == IF dots = {} THEN <<>>
                 ELSE SubSeq(body, (CHOOSE i \in dots : TRUE) + 1, Len(body))
    IN  /\ s # <<>>
        /\ v.neg <=> s[1] = "-"
        /\ Cardinality(dots) <= 1
        /\ IsDigits(ipart) /\ DecimalValue(ipart) = v.int
        /\ dots # {} => IsDigits(fpart)
        /\ fpart = v.frac

----------------------------------------------------------------------------
(* query.rs: stage descriptors and their text *)

\* enum TypeValue, held like Field: the variant and one payload slot per type
\*   Bool: b;  Integer, UInteger, Time: n;  Float: f;  String: s
TypeValue_Bool(v) == [kind |-> "Bool", f |-> NoF64, s |-> <<>>, b |-> v, n |-> 0]
TypeValue_Integer(v) == [kind |-> "Integer", f |-> NoF64, s |-> <<>>, b |-> FALSE, n |-> v]
TypeValue_UInteger(v) == [kind |-> "UInteger", f |-> NoF64, s |-> <<>>, b |-> FALSE, n |-> v]
TypeValue_Float(v) == [kind |-> "Float", f |-> v, s |-> <<>>, b |-> FALSE, n |-> 0]
TypeValue_String(v) == [kind |-> "String", f |-> NoF64, s |-> v, b |-> FALSE, n |-> 0]
TypeValue_Time(v) == [kind |-> "Time", f |-> NoF64, s |-> <<>>, b |-> FALSE, n |-> v]

\* impl Display for TypeValue
TypeValue_fmt(self) ==
    CASE self.kind = "Bool" -> fmt_bool(self.b)
      [] self.kind = "Integer" -> fmt_signed(self.n)
      [] self.kind = "UInteger" -> fmt_unsigned(self.n)
      [] self.kind = "Float" -> fmt_f64(self.f)
      [] self.kind = "String" -> <<DQ>> \o self.s \o <<DQ>>
      [] self.kind = "Time" -> fmt_unsigned(self.n)

\* impl Display for GroupMode
GroupMode_fmt(self) == IF self = "By" THEN <<"b", "y">> ELSE <<"e", "x", "c", "e", "p", "t">>

OnEmpty_fmt_swapped(self) == IF self = "Keep" THEN <<"d", "r", "o", "p">> ELSE <<"k", "e", "e", "p">>

\* impl Display for OnEmpty
OnEmpty_fmt(self) == IF self = "Keep" THEN <<"k", "e", "e", "p">> ELSE <<"d", "r", "o", "p">>

comma_join_strings_bare(v) ==
    join([i \in DOMAIN v |-> v[i]], <<",", " ">>)

\* comma_join_strings
comma_join_strings(v) ==
    join([i \in DOMAIN v |-> <<DQ>> \o v[i] \o <<DQ>>], <<",", " ">>)

\* comma_join, over TypeValue elements
comma_join(v) ==
    join([i \in DOMAIN v |-> TypeValue_fmt(v[i])], <<",", " ">>)

\* enum Function.  A value is its variant (kind) and one slot per parameter
\* name of the enum; every slot is an Option (a required parameter is always
\* Some), `value` is a TypeValue and `set` a list of TypeValue.  The slots a
\* variant does not have stay at their defaults.
NoFunction ==
    [kind |-> "", bucket |-> None, start |-> None, stop |-> None, function |-> None,
     on_empty |-> None, columns |-> None, mode |-> None, name |-> None, n |-> None,
     offset |-> None, value |-> TypeValue_Bool(FALSE), set |-> <<>>, column |-> None,
     key |-> None, value_str |-> None, desc |-> None, unit |-> None,
     time_column |-> None, as |-> None, row_key |-> None, column_key |-> None,
     value_column |-> None]

Function_From(bucket) == [NoFunction EXCEPT !.kind = "From", !.bucket = Some(bucket)]
Function_Range(start, stop) ==
    [NoFunction EXCEPT !.kind = "Range", !.start = Some(start), !.stop = stop]
Function_Filter(function, on_empty) ==
    [NoFunction EXCEPT !.kind = "Filter", !.function = Some(function), !.on_empty = on_empty]
Function_Group(columns, mode) ==
    [NoFunction EXCEPT !.kind = "Group", !.columns = Some(columns), !.mode = mode]
Function_Yield(name) == [NoFunction EXCEPT !.kind = "Yield", !.name = Some(name)]
Function_Keep(columns, function) ==
    [NoFunction EXCEPT !.kind = "Keep", !.columns = columns, !.function = function]
Function_Drop(columns, function) ==
    [NoFunction EXCEPT !.kind = "Drop", !.columns = columns, !.function = function]
Function_Tail(n, offset) ==
    [NoFunction EXCEPT !.kind = "Tail", !.n = Some(n), !.offset = offset]
Function_Contains(value, set) ==
    [NoFunction EXCEPT !.kind = "Contains", !.value = value, !.set = set]
Function_Distinct(column) == [NoFunction EXCEPT !.kind = "Distinct", !.column = Some(column)]
Function_Max == [NoFunction EXCEPT !.kind = "Max"]
Function_Min == [NoFunction EXCEPT !.kind = "Min"]
Function_Limit(n, offset) ==
    [NoFunction EXCEPT !.kind = "Limit", !.n = Some(n), !.offset = offset]
Function_Set(key, value) ==
    [NoFunction EXCEPT !.kind = "Set", !.key = Some(key), !.value_str = Some(value)]
Function_Sort(columns, desc) ==
    [NoFunction EXCEPT !.kind = "Sort", !.columns = columns, !.desc = desc]
Function_Count(column) == [NoFunction EXCEPT !.kind = "Count", !.column = column]
Function_Buckets == [NoFunction EXCEPT !.kind = "Buckets"]
Function_Integral(unit, column, time_column) ==
    [NoFunction EXCEPT !.kind = "Integral", !.unit = Some(unit), !.column = column,
                       !.time_column = time_column]
Function_Duplicate(column, as) ==
    [NoFunction EXCEPT !.kind = "Duplicate", !.column = Some(column), !.as = Some(as)]
Function_Keys(column) == [NoFunction EXCEPT !.kind = "Keys", !.column = column]
Function_Pivot(row_key, column_key, value_column) ==
    [NoFunction EXCEPT !.kind = "Pivot", !.row_key = Some(row_key),
                       !.column_key = Some(column_key), !.value_column = Some(value_column)]

\* the outcome of a formatting call that hit panic!(): no text is produced
PANIC == <<"panic!">>

Function_fmt_timeFirst(self) ==
    CASE self.kind = "From" -> <<"f", "r", "o", "m", "(", "b", "u", "c", "k", "e", "t", ":", " ", DQ>> \o self.bucket[1] \o <<DQ, ")">>
      [] self.kind = "Range" ->
           IF self.stop # None
           THEN <<"r", "a", "n", "g", "e", "(", "s", "t", "a", "r", "t", ":", " ">> \o fmt_unsigned(self.start[1]) \o <<",", " ", "s", "t", "o", "p", ":", " ">>
                \o fmt_unsigned(self.stop[1]) \o <<")">>
           ELSE <<"r", "a", "n", "g", "e", "(", "s", "t", "a", "r", "t", ":", " ">> \o fmt_unsigned(self.start[1]) \o <<")">>
      [] self.kind = "Filter" ->
           IF self.on_empty # None
           THEN <<"f", "i", "l", "t", "e", "r", "(", "f", "n", ":", " ">> \o self.function[1] \o <<",", " ", "o", "n", "E", "m", "p", "t", "y", ":", " ", DQ>>
                \o OnEmpty_fmt(self.on_empty[1]) \o <<DQ, ")">>
           ELSE <<"f", "i", "l", "t", "e", "r", "(", "f", "n", ":", " ">> \o self.function[1] \o <<")">>
      [] self.kind = "Group" ->
           IF self.mode # None
           THEN <<"g", "r", "o", "u", "p", "(", "c", "o", "l", "u", "m", "n", "s", ":", " ", "[">> \o comma_join_strings(self.columns[1])
                \o <<"]", ",", " ", "m", "o", "d", "e", ":", DQ>> \o GroupMode_fmt(self.mode[1]) \o <<DQ, ")">>
           ELSE <<"g", "r", "o", "u", "p", "(", "c", "o", "l", "u", "m", "n", "s", ":", " ", "[">> \o comma_join_strings(self.columns[1]) \o <<"]", ")">>
      [] self.kind = "Yield" -> <<"y", "i", "e", "l", "d", "(", "n", "a", "m", "e", ":", " ", DQ>> \o self.name[1] \o <<DQ, ")">>
      [] self.kind = "Keep" ->
           IF self.columns = None /\ self.function # None
           THEN <<"k", "e", "e", "p", "(", "f", "n", ":", " ", DQ>> \o self.function[1] \o <<DQ, ")">>
           ELSE IF self.columns # None /\ self.function = None
           THEN <<"k", "e", "e", "p", "(", "c", "o", "l", "u", "m", "n", "s", ":", " ", "[">> \o comma_join_strings(self.columns[1]) \o <<"]", ")">>
           ELSE PANIC
      [] self.kind = "Drop" ->
           IF self.columns # None /\ self.function = None
           THEN <<"d", "r", "o", "p", "(", "c", "o", "l", "u", "m", "n", "s", ":", " ", "[">> \o comma_join_strings(self.columns[1]) \o <<"]", ")">>
           ELSE IF self.columns = None /\ self.function # None
           THEN <<"d", "r", "o", "p", "(", "f", "n", ":", " ", DQ>> \o self.function[1] \o <<DQ, ")">>
           ELSE PANIC
      [] self.kind = "Tail" ->
           IF self.offset # None
           THEN <<"t", "a", "i", "l", "(", "n", ":", " ">> \o fmt_unsigned(self.n[1]) \o <<",", " ", "o", "f", "f", "s", "e", "t", ":", " ">>
                \o fmt_unsigned(self.offset[1]) \o <<")">>
           ELSE <<"t", "a", "i", "l", "(", "n", ":", " ">> \o fmt_unsigned(self.n[1]) \o <<")">>
      [] self.kind = "Contains" ->
           <<"c", "o", "n", "t", "a", "i", "n", "s", "(", "v", "a", "l", "u", "e", ":", " ">> \o TypeValue_fmt(self.value) \o <<",", " ", "s", "e", "t", ":", " ", "[">>
           \o comma_join(self.set) \o <<"]", ")">>
      [] self.kind = "Distinct" -> <<"d", "i", "s", "t", "i", "n", "c", "t", "(", "c", "o", "l", "u", "m", "n", ":", " ", DQ>> \o self.column[1] \o <<DQ, ")">>
      [] self.kind = "Max" -> <<"m", "a", "x", "(", ")">>
      [] self.kind = "Min" -> <<"m", "i", "n", "(", ")">>
      [] self.kind = "Limit" ->
           IF self.offset # None
           THEN <<"l", "i", "m", "i", "t", "(", "n", ":", " ">> \o fmt_unsigned(self.n[1]) \o <<",", " ", "o", "f", "f", "s", "e", "t", ":", " ">>
                \o fmt_unsigned(self.offset[1]) \o <<")">>
           ELSE <<"l", "i", "m", "i", "t", "(", "n", ":", " ">> \o fmt_unsigned(self.n[1]) \o <<")">>
      [] self.kind = "Set" ->
           <<"s", "e", "t", "(", "k", "e", "y", ":", " ", DQ>> \o self.key[1] \o <<DQ, ",", " ", "v", "a", "l", "u", "e", ":", " ", DQ>> \o self.value_str[1] \o <<DQ, ")">>
      [] self.kind = "Sort" ->
           IF self.columns = None /\ self.desc = None THEN <<"s", "o", "r", "t", "(", ")">>
           ELSE IF self.columns = None
           THEN <<"s", "o", "r", "t", "(", "d", "e", "s", "c", ":", " ">> \o fmt_bool(self.desc[1])
           ELSE IF self.desc = None
           THEN <<"s", "o", "r", "t", "(", "c", "o", "l", "u", "m", "n", "s", ":", " ", "[">> \o comma_join_strings(self.columns[1]) \o <<"]", ")">>
           ELSE <<"s", "o", "r", "t", "(", "c", "o", "l", "u", "m", "n", "s", ":", " ", "[">> \o comma_join_strings(self.columns[1])
                \o <<"]", ",", " ", "d", "e", "s", "c", ":", " ">> \o fmt_bool(self.desc[1]) \o <<")">>
      [] self.kind = "Count" ->
           IF self.column # None
           THEN <<"c", "o", "u", "n", "t", "(", "c", "o", "l", "u", "m", "n", ":", " ", DQ>> \o self.column[1] \o <<DQ, ")">>
           ELSE <<"c", "o", "u", "n", "t", "(", ")">>
      [] self.kind = "Buckets" -> <<"b", "u", "c", "k", "e", "t", "s", "(", ")">>
      [] self.kind = "Integral" ->
           IF self.column = None /\ self.time_column = None
           THEN <<"i", "n", "t", "e", "g", "r", "a", "l", "(", "u", "n", "i", "t", ":", " ">> \o self.unit[1] \o <<")">>
           ELSE IF self.column = None
           THEN <<"i", "n", "t", "e", "g", "r", "a", "l", "(", "u", "n", "i", "t", ":", " ">> \o self.unit[1] \o <<",", " ", "t", "i", "m", "e", "C", "o", "l", "u", "m", "n", ":", " ", DQ>>
                \o self.time_column[1] \o <<DQ, ")">>
           ELSE IF self.time_column = None
           THEN <<"i", "n", "t", "e", "g", "r", "a", "l", "(", "u", "n", "i", "t", ":", " ">> \o self.unit[1] \o <<",", " ", "c", "o", "l", "u", "m", "n", ":", " ", DQ>>
                \o self.column[1] \o <<DQ, ")">>
           ELSE <<"i", "n", "t", "e", "g", "r", "a", "l", "(", "u", "n", "i", "t", ":", " ">> \o self.unit[1] \o <<",", " ", "t", "i", "m", "e", "C", "o", "l", "u", "m", "n", ":", " ", DQ>>
                \o self.time_column[1] \o <<DQ, ",", " ", "c", "o", "l", "u", "m", "n", ":", " ", DQ>> \o self.column[1] \o <<DQ, ")">>
      [] self.kind = "Duplicate" ->
           <<"d", "u", "p", "l", "i", "c", "a", "t", "e", "(", "c", "o", "l", "u", "m", "n", ":", " ", DQ>> \o self.column[1] \o <<DQ, ",", " ", "a", "s", ":", " ", DQ>> \o self.as[1] \o <<DQ, ")">>
      [] self.kind = "Keys" ->
           IF self.column # None
           THEN <<"k", "e", "y", "s", "(", "c", "o", "l", "u", "m", "n", ":", " ", DQ>> \o self.column[1] \o <<DQ, ")">>
           ELSE <<"k", "e", "y", "s", "(", ")">>
      [] self.kind = "Pivot" ->
           <<"p", "i", "v", "o", "t", "(", "r", "o", "w", "K", "e", "y", ":", " ", "[">> \o comma_join_strings(self.row_key[1])
           \o <<"]", ",", " ", "c", "o", "l", "u", "m", "n", "K", "e", "y", ":", " ", "[">> \o comma_join_strings(self.column_key[1])
           \o <<"]", ",", " ", "v", "a", "l", "u", "e", "C", "o", "l", "u", "m", "n", ":", " ", DQ>> \o self.value_column[1] \o <<DQ, ")">>

\* impl Display for Function: the text written, or PANIC
Function_fmt(self) ==
    CASE self.kind = "From" -> <<"f", "r", "o", "m", "(", "b", "u", "c", "k", "e", "t", ":", " ", DQ>> \o self.bucket[1] \o <<DQ, ")">>
      [] self.kind = "Range" ->
           IF self.stop # None
           THEN <<"r", "a", "n", "g", "e", "(", "s", "t", "a", "r", "t", ":", " ">> \o fmt_unsigned(self.start[1]) \o <<",", " ", "s", "t", "o", "p", ":", " ">>
                \o fmt_unsigned(self.stop[1]) \o <<")">>
           ELSE <<"r", "a", "n", "g", "e", "(", "s", "t", "a", "r", "t", ":", " ">> \o fmt_unsigned(self.start[1]) \o <<")">>
      [] self.kind = "Filter" ->
           IF self.on_empty # None
           THEN <<"f", "i", "l", "t", "e", "r", "(", "f", "n", ":", " ">> \o self.function[1] \o <<",", " ", "o", "n", "E", "m", "p", "t", "y", ":", " ", DQ>>
                \o OnEmpty_fmt(self.on_empty[1]) \o <<DQ, ")">>
           ELSE <<"f", "i", "l", "t", "e", "r", "(", "f", "n", ":", " ">> \o self.function[1] \o <<")">>
      [] self.kind = "Group" ->
           IF self.mode # None
           THEN <<"g", "r", "o", "u", "p", "(", "c", "o", "l", "u", "m", "n", "s", ":", " ", "[">> \o comma_join_strings(self.columns[1])
                \o <<"]", ",", " ", "m", "o", "d", "e", ":", DQ>> \o GroupMode_fmt(self.mode[1]) \o <<DQ, ")">>
           ELSE <<"g", "r", "o", "u", "p", "(", "c", "o", "l", "u", "m", "n", "s", ":", " ", "[">> \o comma_join_strings(self.columns[1]) \o <<"]", ")">>
      [] self.kind = "Yield" -> <<"y", "i", "e", "l", "d", "(", "n", "a", "m", "e", ":", " ", DQ>> \o self.name[1] \o <<DQ, ")">>
      [] self.kind = "Keep" ->
           IF self.columns = None /\ self.function # None
           THEN <<"k", "e", "e", "p", "(", "f", "n", ":", " ", DQ>> \o self.function[1] \o <<DQ, ")">>
           ELSE IF self.columns # None /\ self.function = None
           THEN <<"k", "e", "e", "p", "(", "c", "o", "l", "u", "m", "n", "s", ":", " ", "[">> \o comma_join_strings(self.columns[1]) \o <<"]", ")">>
           ELSE PANIC
      [] self.kind = "Drop" ->
           IF self.columns # None /\ self.function = None
           THEN <<"d", "r", "o", "p", "(", "c", "o", "l", "u", "m", "n", "s", ":", " ", "[">> \o comma_join_strings(self.columns[1]) \o <<"]", ")">>
           ELSE IF self.columns = None /\ self.function # None
           THEN <<"d", "r", "o", "p", "(", "f", "n", ":", " ", DQ>> \o self.function[1] \o <<DQ, ")">>
           ELSE PANIC
      [] self.kind = "Tail" ->
           IF self.offset # None
           THEN <<"t", "a", "i", "l", "(", "n", ":", " ">> \o fmt_unsigned(self.n[1]) \o <<",", " ", "o", "f", "f", "s", "e", "t", ":", " ">>
                \o fmt_unsigned(self.offset[1]) \o <<")">>
           ELSE <<"t", "a", "i", "l", "(", "n", ":", " ">> \o fmt_unsigned(self.n[1]) \o <<")">>
      [] self.kind = "Contains" ->
           <<"c", "o", "n", "t", "a", "i", "n", "s", "(", "v", "a", "l", "u", "e", ":", " ">> \o TypeValue_fmt(self.value) \o <<",", " ", "s", "e", "t", ":", " ", "[">>
           \o comma_join(self.set) \o <<"]", ")">>
      [] self.kind = "Distinct" -> <<"d", "i", "s", "t", "i", "n", "c", "t", "(", "c", "o", "l", "u", "m", "n", ":", " ", DQ>> \o self.column[1] \o <<DQ, ")">>
      [] self.kind = "Max" -> <<"m", "a", "x", "(", ")">>
      [] self.kind = "Min" -> <<"m", "i", "n", "(", ")">>
      [] self.kind = "Limit" ->
           IF self.offset # None
           THEN <<"l", "i", "m", "i", "t", "(", "n", ":", " ">> \o fmt_unsigned(self.n[1]) \o <<",", " ", "o", "f", "f", "s", "e", "t", ":", " ">>
                \o fmt_unsigned(self.offset[1]) \o <<")">>
           ELSE <<"l", "i", "m", "i", "t", "(", "n", ":", " ">> \o fmt_unsigned(self.n[1]) \o <<")">>
      [] self.kind = "Set" ->
           <<"s", "e", "t", "(", "k", "e", "y", ":", " ", DQ>> \o self.key[1] \o <<DQ, ",", " ", "v", "a", "l", "u", "e", ":", " ", DQ>> \o self.value_str[1] \o <<DQ, ")">>
      [] self.kind = "Sort" ->
           IF self.columns = None /\ self.desc = None THEN <<"s", "o", "r", "t", "(", ")">>
           ELSE IF self.columns = None
           THEN <<"s", "o", "r", "t", "(", "d", "e", "s", "c", ":", " ">> \o fmt_bool(self.desc[1])
           ELSE IF self.desc = None
           THEN <<"s", "o", "r", "t", "(", "c", "o", "l", "u", "m", "n", "s", ":", " ", "[">> \o comma_join_strings(self.columns[1]) \o <<"]", ")">>
           ELSE <<"s", "o", "r", "t", "(", "c", "o", "l", "u", "m", "n", "s", ":", " ", "[">> \o comma_join_strings(self.columns[1])
                \o <<"]", ",", " ", "d", "e", "s", "c", ":", " ">> \o fmt_bool(self.desc[1]) \o <<")">>
      [] self.kind = "Count" ->
           IF self.column # None
           THEN <<"c", "o", "u", "n", "t", "(", "c", "o", "l", "u", "m", "n", ":", " ", DQ>> \o self.column[1] \o <<DQ, ")">>
           ELSE <<"c", "o", "u", "n", "t", "(", ")">>
      [] self.kind = "Buckets" -> <<"b", "u", "c", "k", "e", "t", "s", "(", ")">>
      [] self.kind = "Integral" ->
           IF self.column = None /\ self.time_column = None
           THEN <<"i", "n", "t", "e", "g", "r", "a", "l", "(", "u", "n", "i", "t", ":", " ">> \o self.unit[1] \o <<")">>
           ELSE IF self.column = None
           THEN <<"i", "n", "t", "e", "g", "r", "a", "l", "(", "u", "n", "i", "t", ":", " ">> \o self.unit[1] \o <<",", " ", "t", "i", "m", "e", "C", "o", "l", "u", "m", "n", ":", " ", DQ>>
                \o self.time_column[1] \o <<DQ, ")">>
           ELSE IF self.time_column = None
           THEN <<"i", "n", "t", "e", "g", "r", "a", "l", "(", "u", "n", "i", "t", ":", " ">> \o self.unit[1] \o <<",", " ", "c", "o", "l", "u", "m", "n", ":", " ", DQ>>
                \o self.column[1] \o <<DQ, ")">>
           ELSE <<"i", "n", "t", "e", "g", "r", "a", "l", "(", "u", "n", "i", "t", ":", " ">> \o self.unit[1] \o <<",", " ", "c", "o", "l", "u", "m", "n", ":", " ", DQ>>
                \o self.column[1] \o <<DQ, ",", " ", "t", "i", "m", "e", "C", "o", "l", "u", "m", "n", ":", " ", DQ>> \o self.time_column[1] \o <<DQ, ")">>
      [] self.kind = "Duplicate" ->
           <<"d", "u", "p", "l", "i", "c", "a", "t", "e", "(", "c", "o", "l", "u", "m", "n", ":", " ", DQ>> \o self.column[1] \o <<DQ, ",", " ", "a", "s", ":", " ", DQ>> \o self.as[1] \o <<DQ, ")">>
      [] self.kind = "Keys" ->
           IF self.column # None
           THEN <<"k", "e", "y", "s", "(", "c", "o", "l", "u", "m", "n", ":", " ", DQ>> \o self.column[1] \o <<DQ, ")">>
           ELSE <<"k", "e", "y", "s", "(", ")">>
      [] self.kind = "Pivot" ->
           <<"p", "i", "v", "o", "t", "(", "r", "o", "w", "K", "e", "y", ":", " ", "[">> \o comma_join_strings(self.row_key[1])
           \o <<"]", ",", " ", "c", "o", "l", "u", "m", "n", "K", "e", "y", ":", " ", "[">> \o comma_join_strings(self.column_key[1])
           \o <<"]", ",", " ", "v", "a", "l", "u", "e", "C", "o", "l", "u", "m", "n", ":", " ", DQ>> \o self.value_column[1] \o <<DQ, ")">>

\* the separator written between the lines of a Query
SEP == <<NL, " ", "|", ">", " ">>

\* Query::new
Query_new == [lines |-> <<>>]

Query_fmt_noSpace(self) == join(self.lines, <<NL, "|", ">", " ">>)

Query_fmt_trailing(self) ==
    IF self.lines = <<>> THEN <<>> ELSE join(self.lines, SEP) \o SEP

\* impl Display for Query
Query_fmt(self) == join(self.lines, SEP)

----------------------------------------------------------------------------
(* query.rs: the Query builder *)

MaxStages == 2      \* bound on the number of stages appended to a Query
MaxChain == 3       \* bound on the number of stages of a from/range/filter chain

X == <<"r", ".", "a">>
Q_Buckets == { <<"s", "e", "r", "v", "e", "r">> }
Q_Starts == { 100 }
Q_Stops == { None, Some(200) }
Q_Predicates == { X }
Q_OnEmpty == { None, Some("Keep"), Some("Drop") }
Q_ColumnLists == { <<>>, << <<"a">> >>, << <<"a">>, <<"b">> >> }
Q_Modes == { None, Some("By"), Some("Except") }
Q_Names == { <<"n">> }
Q_Counts == { 5 }
Q_Offsets == { None, Some(2) }
Q_OptColumns == { None, Some(<<"c">>) }
Q_OptColumnLists == { None, Some(<< <<"a">>, <<"b">> >>) }
Q_OptFunctions == { None, Some(<<"f">>) }
Q_OptDesc == { None, Some(TRUE), Some(FALSE) }
Q_Units == { <<"1", "s">> }
Q_Texts == { <<"x">> }
\* contains<T>(value: T, set: Vec<T>): value and set share the type T
Q_Contains ==
    { << TypeValue_Bool(TRUE), << TypeValue_Bool(TRUE), TypeValue_Bool(FALSE) >> >>,
      << TypeValue_Integer(-1), << TypeValue_Integer(1), TypeValue_Integer(-20) >> >>,
      << TypeValue_UInteger(1), << TypeValue_UInteger(1) >> >>,
      << TypeValue_Float(F64(FALSE, 1, <<"5">>)), << TypeValue_Float(F64(FALSE, 2, <<>>)) >> >>,
      << TypeValue_String(<<"s">>), << TypeValue_String(<<"s", "1">>), TypeValue_String(<<"s", "2">>) >> >>,
      << TypeValue_Time(100), << TypeValue_Time(100), TypeValue_Time(200) >> >>,
      << TypeValue_String(<<"s">>), <<>> >> }
\* the descriptors handed to Query::with (as tests::write_query does), and
\* the Keep / Drop descriptors no formatting arm accepts
Q_WithFunctions ==
    { Function_From(<<"s", "e", "r", "v", "e", "r">>), Function_Range(100, Some(200)),
      Function_Filter(X, Some("Drop")), Function_Group(<< <<"a">>, <<"b">> >>, Some("By")),
      Function_Contains(TypeValue_String(<<"s">>), << TypeValue_String(<<"s", "1">>), TypeValue_String(<<"s", "2">>) >>),
      Function_Keep(Some(<< <<"a">> >>), Some(<<"f">>)), Function_Drop(None, None) }

\* a Query that can take one more call: it exists (no panic has dropped it)
\* and holds fewer stages than the bound
CanAppend(limit) == query # None /\ ~panicked /\ Len(query[1].lines) < limit

lines_push_front(op, function) ==
    /\ IF Function_fmt(function) = PANIC
       THEN query' = None /\ panicked' = TRUE
       ELSE /\ query' = Some([query[1] EXCEPT !.lines = <<Function_fmt(function)>> \o @])
            /\ panicked' = FALSE
    /\ q_out' = None
    /\ calls' = Append(calls, [op |-> op, f |-> function, text |-> <<>>])
    /\ UNCHANGED <<mvars, pvars>>

lines_push_lazy(op, function) ==
    /\ query' = Some([query[1] EXCEPT !.lines = Append(@, Function_fmt(function))])
    /\ panicked' = FALSE
    /\ q_out' = None
    /\ calls' = Append(calls, [op |-> op, f |-> function, text |-> <<>>])
    /\ UNCHANGED <<mvars, pvars>>

lines_push_replace(op, function) ==
    /\ IF Function_fmt(function) = PANIC
       THEN query' = None /\ panicked' = TRUE
       ELSE /\ query' = Some([query[1] EXCEPT !.lines =
                                IF @ = <<>> THEN <<Function_fmt(function)>>
                                ELSE SubSeq(@, 1, Len(@) - 1) \o <<Function_fmt(function)>>])
            /\ panicked' = FALSE
    /\ q_out' = None
    /\ calls' = Append(calls, [op |-> op, f |-> function, text |-> <<>>])
    /\ UNCHANGED <<mvars, pvars>>

\* self.lines.push(function.to_string()): the text is formatted first, and a
\* panic in the formatting unwinds out of the call and drops the Query
lines_push(op, function) ==
    /\ IF Function_fmt(function) = PANIC
       THEN query' = None /\ panicked' = TRUE
       ELSE /\ query' = Some([query[1] EXCEPT !.lines = Append(@, Function_fmt(function))])
            /\ panicked' = FALSE
    /\ q_out' = None
    /\ calls' = Append(calls, [op |-> op, f |-> function, text |-> <<>>])
    /\ UNCHANGED <<mvars, pvars>>

\* Query::with
Query_with(limit) ==
    /\ CanAppend(limit)
    /\ \E function \in Q_WithFunctions : lines_push("with", function)

\* Query::with_text
Query_with_text(limit) ==
    /\ CanAppend(limit)
    /\ \E text \in Q_Texts :
         /\ query' = Some([query[1] EXCEPT !.lines = Append(@, text)])
         /\ calls' = Append(calls, [op |-> "with_text", f |-> NoFunction, text |-> text])
    /\ q_out' = None
    /\ UNCHANGED <<panicked, mvars, pvars>>

\* Query::from
Query_from(limit) ==
    /\ CanAppend(limit)
    /\ \E bucket \in Q_Buckets : lines_push("from", Function_From(bucket))

\* Query::range
Query_range(limit) ==
    /\ CanAppend(limit)
    /\ \E start \in Q_Starts, stop \in Q_Stops :
           lines_push("range", Function_Range(start, stop))

\* Query::filter
Query_filter(limit) ==
    /\ CanAppend(limit)
    /\ \E function \in Q_Predicates, on_empty \in Q_OnEmpty :
           lines_push("filter", Function_Filter(function, on_empty))

\* Query::group
Query_group(limit) ==
    /\ CanAppend(limit)
    /\ \E columns \in Q_ColumnLists, mode \in Q_Modes :
           lines_push("group", Function_Group(columns, mode))

\* Query::yield
Query_yield(limit) ==
    /\ CanAppend(limit)
    /\ \E name \in Q_Names : lines_push("yield", Function_Yield(name))

\* Query::keep
Query_keep(limit) ==
    /\ CanAppend(limit)
    /\ \E columns \in Q_OptColumnLists, function \in Q_OptFunctions :
           lines_push("keep", Function_Keep(columns, function))

\* Query::drop
Query_drop(limit) ==
    /\ CanAppend(limit)
    /\ \E columns \in Q_OptColumnLists, function \in Q_OptFunctions :
           lines_push("drop", Function_Drop(columns, function))

\* Query::tail
Query_tail(limit) ==
    /\ CanAppend(limit)
    /\ \E n \in Q_Counts, offset \in Q_Offsets :
           lines_push("tail", Function_Tail(n, offset))

\* Query::contains
Query_contains(limit) ==
    /\ CanAppend(limit)
    /\ \E arg \in Q_Contains :
           lines_push("contains", Function_Contains(arg[1], arg[2]))

\* Query::distinct
Query_distinct(limit) ==
    /\ CanAppend(limit)
    /\ \E column \in Q_Names : lines_push("distinct", Function_Distinct(column))

\* Query::max
Query_max(limit) ==
    /\ CanAppend(limit)
    /\ lines_push("max", Function_Max)

\* Query::min
Query_min(limit) ==
    /\ CanAppend(limit)
    /\ lines_push("min", Function_Min)

\* Query::limit
Query_limit(limit) ==
    /\ CanAppend(limit)
    /\ \E n \in Q_Counts, offset \in Q_Offsets :
           lines_push("limit", Function_Limit(n, offset))

\* Query::set
Query_set(limit) ==
    /\ CanAppend(limit)
    /\ \E key \in Q_Names, value \in Q_Texts :
           lines_push("set", Function_Set(key, value))

\* Query::sort
Query_sort(limit) ==
    /\ CanAppend(limit)
    /\ \E columns \in Q_OptColumnLists, desc \in Q_OptDesc :
           lines_push("sort", Function_Sort(columns, desc))

\* Query::count
Query_count(limit) ==
    /\ CanAppend(limit)
    /\ \E column \in Q_OptColumns : lines_push("count", Function_Count(column))

\* Query::buckets
Query_buckets(limit) ==
    /\ CanAppend(limit)
    /\ lines_push("buckets", Function_Buckets)

\* Query::integral
Query_integral(limit) ==
    /\ CanAppend(limit)
    /\ \E unit \in Q_Units, column \in Q_OptColumns, time_column \in Q_OptColumns :
           lines_push("integral", Function_Integral(unit, column, time_column))

\* Query::duplicate
Query_duplicate(limit) ==
    /\ CanAppend(limit)
    /\ \E column \in Q_Names, as \in Q_Texts :
           lines_push("duplicate", Function_Duplicate(column, as))

\* Query::keys
Query_keys(limit) ==
    /\ CanAppend(limit)
    /\ \E column \in Q_OptColumns : lines_push("keys", Function_Keys(column))

\* Query::pivot
Query_pivot(limit) ==
    /\ CanAppend(limit)
    /\ \E row_key \in Q_ColumnLists \ { <<>> }, value_column \in Q_Names :
           lines_push("pivot", Function_Pivot(row_key, << <<"b">> >>, value_column))

\* a caller rendering the Query with to_string (as InfluxClient::query does)
Query_to_string ==
    /\ query # None
    /\ q_out' = Some(Query_fmt(query[1]))
    /\ UNCHANGED <<query, panicked, calls, mvars, pvars>>

\* Query::new() with no stage appended yet
InitQuery ==
    /\ query = Some(Query_new)
    /\ panicked = FALSE
    /\ q_out = None
    /\ calls = <<>>
    /\ NoMeasurement
    /\ NoPure

NextQuery ==
    \/ Query_with(MaxStages)
    \/ Query_with_text(MaxStages)
    \/ Query_from(MaxStages)
    \/ Query_range(MaxStages)
    \/ Query_filter(MaxStages)
    \/ Query_group(MaxStages)
    \/ Query_yield(MaxStages)
    \/ Query_keep(MaxStages)
    \/ Query_drop(MaxStages)
    \/ Query_tail(MaxStages)
    \/ Query_contains(MaxStages)
    \/ Query_distinct(MaxStages)
    \/ Query_max(MaxStages)
    \/ Query_min(MaxStages)
    \/ Query_limit(MaxStages)
    \/ Query_set(MaxStages)
    \/ Query_sort(MaxStages)
    \/ Query_count(MaxStages)
    \/ Query_buckets(MaxStages)
    \/ Query_integral(MaxStages)
    \/ Query_duplicate(MaxStages)
    \/ Query_keys(MaxStages)
    \/ Query_pivot(MaxStages)
    \/ Query_to_string

SpecQuery == InitQuery /\ [][NextQuery]_vars

\* the chain of the end-to-end scenario: from, range and filter calls only
NextChain ==
    \/ Query_from(MaxChain)
    \/ Query_range(MaxChain)
    \/ Query_filter(MaxChain)
    \/ Query_to_string

SpecChain == InitQuery /\ [][NextChain]_vars


----------------------------------------------------------------------------
(* Properties of the Query builder *)

\* the text a call appends: the given text for with_text, else the text of
\* the stage descriptor the call builds
StageText(c) == IF c.op = "with_text" THEN c.text ELSE Function_fmt(c.f)

Separator == <<NL, " ", "|", ">", " ">>

RECURSIVE Offset(_, _)
\* the position at which the k-th of the texts starts when the texts are
\* written one after the other with a Separator between neighbours
Offset(ls, k) ==
    IF k = 1 THEN 1 ELSE Offset(ls, k - 1) + Len(ls[k - 1]) + Len(Separator)

\* C6: the text of a Query is its stage texts joined by "\n |> " with no
\* leading or trailing separator; no stage gives the empty text and one stage
\* gives exactly that stage's text.
C6_QueryRendering ==
    q_out # None =>
      LET ls == query[1].lines
          out == q_out[1]
          n == Len(ls)
      IN  /\ n = 0 => out = <<>>
          /\ n = 1 => out = ls[1]
          /\ n > 0 => Len(out) = Offset(ls, n) + Len(ls[n]) - 1
          /\ \A k \in 1 .. n :
               SubSeq(out, Offset(ls, k), Offset(ls, k) + Len(ls[k]) - 1) = ls[k]
          /\ \A k \in 1 .. (n - 1) :
               SubSeq(out, Offset(ls, k) + Len(ls[k]), Offset(ls, k + 1) - 1) = Separator

\* a Query of two different stages has been rendered
C6_Witness ==
    /\ q_out # None
    /\ Len(query[1].lines) = 2
    /\ query[1].lines[1] # query[1].lines[2]

\* C7: the stage list is the texts of the appended stages in the order of the
\* calls; every successful append lengthens the list by one, puts the new
\* stage last and leaves the earlier stages in place.
C7_AppendOrder ==
    /\ [](query # None =>
            query[1].lines = [i \in 1 .. Len(calls) |-> StageText(calls[i])])
    /\ [][ (query # None /\ query' # None /\ query' # query) =>
             LET old == query[1].lines
                 new == query'[1].lines
             IN  /\ Len(new) = Len(old) + 1
                 /\ SubSeq(new, 1, Len(old)) = old
                 /\ new[Len(new)] = StageText(calls'[Len(calls')]) ]_vars

\* as many stages as the bound allows were appended, the last two by different calls
C7_Witness ==
    /\ query # None
    /\ Len(query[1].lines) = MaxStages
    /\ Len(calls) >= 2
    /\ StageText(calls[Len(calls)]) # StageText(calls[Len(calls) - 1])

\* C8: for a Query that started empty and two stages A and B, the text of the
\* Query after appending A and B is the text of the Query after appending A,
\* followed by "\n |> ", followed by the text of stage B alone.
C8_RenderAppend ==
    (q_out # None /\ Len(calls) = 2) =>
        q_out[1] = Query_fmt([lines |-> <<StageText(calls[1])>>])
                   \o Separator \o StageText(calls[2])

\* the Query built by two different append calls has been rendered
C8_Witness ==
    /\ q_out # None
    /\ Len(calls) = 2
    /\ calls[1].op # calls[2].op

\* a keep / drop call with exactly one of columns and function supplied
ExactlyOne(c) == (c.f.columns # None) # (c.f.function # None)

\* C9: keep and drop with both or neither of columns and predicate panic in
\* the append call itself: no Query holding that stage exists afterwards and
\* no rendering follows; with exactly one supplied they append one stage.
C9_KeepDropPanic ==
    /\ [](panicked => (query = None /\ q_out = None))
    /\ [][ (calls' # calls /\ calls'[Len(calls')].op \in { "keep", "drop" }) =>
             IF ExactlyOne(calls'[Len(calls')])
             THEN /\ ~panicked'
                  /\ query' # None
                  /\ Len(query'[1].lines) = Len(query[1].lines) + 1
             ELSE /\ panicked'
                  /\ query' = None
                  /\ q_out' = None ]_vars

\* a keep call with both columns and predicate supplied has panicked
C9_Witness ==
    /\ panicked
    /\ calls[Len(calls)].op = "keep"
    /\ calls[Len(calls)].f.columns # None
    /\ calls[Len(calls)].f.function # None

\* the three calls of the end-to-end scenario, in order
ScenarioCalls ==
    << [op |-> "from", f |-> Function_From(<<"s", "e", "r", "v", "e", "r">>), text |-> <<>>],
       [op |-> "range", f |-> Function_Range(100, Some(200)), text |-> <<>>],
       [op |-> "filter", f |-> Function_Filter(X, Some("Drop")), text |-> <<>>] >>

\* C10: from("server"), range(100, Some(200)) and filter(X, Some(OnEmpty::Drop))
\* chained on an empty Query render to the literal text
\* from(bucket: "server")\n |> range(start: 100, stop: 200)\n |> filter(fn: X, onEmpty: "drop")
\* with the predicate text X verbatim and unquoted.
C10_EndToEnd ==
    (q_out # None /\ calls = ScenarioCalls) =>
        q_out[1] = <<"f", "r", "o", "m", "(", "b", "u", "c", "k", "e", "t", ":", " ", DQ, "s", "e", "r", "v", "e", "r", DQ, ")", NL, " ", "|", ">", " ", "r", "a", "n", "g", "e", "(", "s", "t", "a", "r", "t", ":", " ", "1", "0", "0", ",", " ", "s", "t", "o", "p", ":", " ", "2", "0", "0", ")", NL, " ", "|", ">", " ", "f", "i", "l", "t", "e", "r", "(", "f", "n", ":", " ">>
                   \o X \o <<",", " ", "o", "n", "E", "m", "p", "t", "y", ":", " ", DQ, "d", "r", "o", "p", DQ, ")">>

\* the scenario's chain has been built and rendered
C10_Witness == q_out # None /\ calls = ScenarioCalls


----------------------------------------------------------------------------
(* Properties of Field::from *)

\* C12: Field::from is total and keeps the kind: every signed integer type
\* gives Integer and every unsigned one UInteger, with the same number (no
\* wrap-around, no sign change); the float types give Float, bool gives Bool
\* and String / &str give String with the same text.
C12_FieldFrom ==
    /\ (native # None /\ f_in = None) => ENABLED into_field
    /\ (native # None /\ f_in # None) =>
         LET v == native[1]
             f == f_in[1]
         IN  /\ v.ty \in SignedTypes => (f.kind = "Integer" /\ f.n = v.n)
             /\ v.ty \in UnsignedTypes => (f.kind = "UInteger" /\ f.n = v.n /\ f.n >= 0)
             /\ v.ty \in FloatTypes => f.kind = "Float"
             /\ v.ty = "bool" => (f.kind = "Bool" /\ f.b = v.b)
             /\ v.ty \in { "String", "&str" } => (f.kind = "String" /\ f.s = v.s)

\* the largest u16 and a negative i8 have been converted
C12_Witness ==
    /\ native # None
    /\ f_in # None
    /\ \/ native[1].ty = "u16" /\ native[1].n = 65535
       \/ native[1].ty = "i8" /\ native[1].n = -128


----------------------------------------------------------------------------
(* The end-to-end Measurement scenario *)

\* Measurement::builder("m1").tag("tag1", "v1").field("f1", true)
\*     .timestamp_ms(1000).build(), as the builder's calls leave it
ScenarioMeasurement ==
    Measurement_new(<<"m", "1">>, 1000,
                    collect(<< <<<<"t", "a", "g", "1">>, TagValue_new(<<"v", "1">>)>> >>),
                    collect(<< <<<<"f", "1">>, Bool(TRUE)>> >>))

\* C11: the Measurement named m1 built with the single tag tag1=v1, the single
\* field f1=Bool(true) and timestamp_ms(1000) renders to exactly
\* m1,tag1=v1 f1=true 1000.
C11_ScenarioLine ==
    (m = Some(ScenarioMeasurement) /\ adds = 0 /\ ts_arg = Some(1000)) =>
        /\ \A tag_order \in IterOrders(m[1].tags), field_order \in IterOrders(m[1].fields) :
             to_line_protocol(m[1], tag_order, field_order) = <<"m", "1", ",", "t", "a", "g", "1", "=", "v", "1", " ", "f", "1", "=", "t", "r", "u", "e", " ", "1", "0", "0", "0">>
        /\ line # None => line[1] = <<"m", "1", ",", "t", "a", "g", "1", "=", "v", "1", " ", "f", "1", "=", "t", "r", "u", "e", " ", "1", "0", "0", "0">>

\* the scenario's Measurement was built and rendered
C11_Witness ==
    /\ m = Some(ScenarioMeasurement)
    /\ adds = 0
    /\ ts_arg = Some(1000)
    /\ result = "Ok"
    /\ line = Some(<<"m", "1", ",", "t", "a", "g", "1", "=", "v", "1", " ", "f", "1", "=", "t", "r", "u", "e", " ", "1", "0", "0", "0">>)


----------------------------------------------------------------------------
(* The Sort stage, and the two ways of building a Query *)

\* C13: the text of a Sort stage has the form sort([columns: [...]][, desc: B])
\* for all four combinations of its optional parameters and always ends with
\* the closing parenthesis matching the opening one.
C13_SortClosed ==
    (query # None /\ calls # <<>> /\ calls[Len(calls)].op = "sort") =>
        LET text == query[1].lines[Len(query[1].lines)]
        IN  /\ Len(text) >= 6
            /\ SubSeq(text, 1, 5) = <<"s", "o", "r", "t", "(">>
            /\ text[Len(text)] = ")"

\* Query::with as a function of the Query it consumes
with_descriptor(self, function) ==
    [self EXCEPT !.lines = Append(@, Function_fmt(function))]

RECURSIVE WithChain(_)
\* Query::new() followed by one Query::with per call, with the call's
\* stage descriptor, in the order of the calls
WithChain(cs) ==
    IF cs = <<>> THEN Query_new
    ELSE with_descriptor(WithChain(SubSeq(cs, 1, Len(cs) - 1)), cs[Len(cs)].f)

\* C14: a Query built through the chained methods equals, after every step of
\* the chain, the Query built from Query::new() by appending the corresponding
\* stage descriptors with Query::with in the same order.
C14_WithEquivalence ==
    (\A i \in DOMAIN calls : calls[i].op # "with_text") =>
        IF panicked
        THEN query = None /\ Function_fmt(calls[Len(calls)].f) = PANIC
        ELSE query = Some(WithChain(calls))

\* a chain of method calls as long as the bound allows, none of them Query::with
C14_Witness ==
    /\ query # None
    /\ Len(calls) = MaxStages
    /\ calls[1].op = "from"
    /\ calls[Len(calls)].op = "group"
    /\ calls[Len(calls)].f.columns = Some(<< <<"a">>, <<"b">> >>)


----------------------------------------------------------------------------
(* The core as a whole: a caller works on a Measurement or on a Query *)

InitCore == Init \/ InitQuery

NextCore == Next \/ NextQuery

SpecCore == InitCore /\ [][NextCore]_vars

\* C15: rendering never fails on a validly constructed value: to_line_protocol
\* of any Measurement build returned, also after add_tag / add_field, and
\* to_string of any Query left by successful append calls return a text; the
\* only failing operations are build (empty fields, clock error) and keep /
\* drop with an invalid combination of parameters.
C15_RenderingTotal ==
    /\ [](m # None =>
            /\ result = "Ok"
            /\ ENABLED render_line
            /\ \A tag_order \in IterOrders(m[1].tags), field_order \in IterOrders(m[1].fields) :
                 to_line_protocol(m[1], tag_order, field_order) # PANIC)
    /\ [](line # None => line[1] # PANIC)
    /\ [](query # None =>
            /\ ~panicked
            /\ \A i \in DOMAIN query[1].lines : query[1].lines[i] # PANIC
            /\ q_out = None => ENABLED Query_to_string
            /\ Query_fmt(query[1]) # PANIC)
    /\ [](q_out # None => q_out[1] # PANIC)
    /\ [][ (result' # result /\ result' # "Ok") =>
             /\ builder # None
             /\ builder' = None
             /\ \/ result' = "EmptyFields" /\ builder[1].fields = <<>>
                \/ result' = "SystemTimeError" /\ builder[1].timestamp = None ]_vars
    /\ [][ (panicked' /\ ~panicked) =>
             /\ calls' # calls
             /\ calls'[Len(calls')].f.kind \in { "Keep", "Drop" }
             /\ ~ExactlyOne(calls'[Len(calls')]) ]_vars
    /\ [][ (calls' # calls /\ ~panicked') => query' # None ]_vars

\* a Measurement changed by add_tag / add_field after build has been rendered
C15_Witness ==
    /\ m # None
    /\ adds = MaxAdds
    /\ line # None
    /\ \E tag_order \in IterOrders(m[1].tags), field_order \in IterOrders(m[1].fields) :
         line[1] = to_line_protocol(m[1], tag_order, field_order)


----------------------------------------------------------------------------
(* The layout of a line of line protocol *)

RECURSIVE OffsetFrom(_, _, _)
\* the position at which the k-th of the texts starts when the first starts at
\* `first` and neighbours are one character apart
OffsetFrom(ls, k, first) ==
    IF k = 1 THEN first ELSE OffsetFrom(ls, k - 1, first) + Len(ls[k - 1]) + 1

\* the texts ls stand in out from position `first` on, in order, with exactly
\* the character sep between neighbours
PlacedAt(out, ls, first, sep) ==
    /\ \A k \in DOMAIN ls :
         SubSeq(out, OffsetFrom(ls, k, first), OffsetFrom(ls, k, first) + Len(ls[k]) - 1) = ls[k]
    /\ \A k \in 1 .. (Len(ls) - 1) : out[OffsetFrom(ls, k + 1, first) - 1] = sep

\* the position right after the last of the texts ls placed from `first` on
EndOf(ls, first) ==
    IF ls = <<>> THEN first ELSE OffsetFrom(ls, Len(ls), first) + Len(ls[Len(ls)])

\* the line laid out as the name, a comma and the tag pairs if there are any,
\* one space, the field pairs, one space and the timestamp
LaidOut(out, self, tag_order, field_order) ==
    LET name == self.measurement_name
        tag_pairs == [i \in DOMAIN tag_order |->
                        tag_order[i] \o <<"=">> \o self.tags[tag_order[i]]]
        field_pairs == [i \in DOMAIN field_order |->
                          field_order[i] \o <<"=">> \o Field_fmt(self.fields[field_order[i]])]
        tags_first == Len(name) + 2
        tags_end == EndOf(tag_pairs, tags_first)
        fields_first == IF tag_pairs = <<>> THEN Len(name) + 2 ELSE tags_end + 1
        fields_end == EndOf(field_pairs, fields_first)
        timestamp == fmt_unsigned(self.timestamp_ms)
    IN  /\ SubSeq(out, 1, Len(name)) = name
        /\ (out[Len(name) + 1] = ",") <=> (DOMAIN self.tags # {})
        /\ Len(tag_pairs) = Cardinality(DOMAIN self.tags)
        /\ \A k \in DOMAIN self.tags : \E i \in DOMAIN tag_order : tag_order[i] = k
        /\ PlacedAt(out, tag_pairs, tags_first, ",")
        /\ out[fields_first - 1] = " "
        /\ Len(field_pairs) = Cardinality(DOMAIN self.fields)
        /\ \A k \in DOMAIN self.fields : \E i \in DOMAIN field_order : field_order[i] = k
        /\ PlacedAt(out, field_pairs, fields_first, ",")
        /\ out[fields_end] = " "
        /\ SubSeq(out, fields_end + 1, Len(out)) = timestamp
        /\ Len(out) = fields_end + Len(timestamp)

\* C16: to_line_protocol writes a comma right after the name if and only if
\* there are tags; every stored tag stands once as name=escaped-value and
\* every stored field once as name=rendered-value, pairs joined by single
\* commas; name[,tags], fields and timestamp are one space apart.
C16_LineLayout ==
    m # None =>
      \A tag_order \in IterOrders(m[1].tags), field_order \in IterOrders(m[1].fields) :
         LaidOut(to_line_protocol(m[1], tag_order, field_order), m[1], tag_order, field_order)

\* a Measurement of two tags and two fields has been rendered
C16_Witness ==
    /\ m # None
    /\ Cardinality(DOMAIN m[1].tags) = 2
    /\ Cardinality(DOMAIN m[1].fields) = 2
    /\ adds = 0
    /\ line # None


----------------------------------------------------------------------------
(* The timestamp of a built Measurement, and changes after build *)

\* C17: when timestamp_ms(t) was called, build stores the last t, does not
\* read the clock and cannot return the clock error; when it was not called
\* and there are fields, build reads the clock and a failed read gives the
\* SystemTimeError result and no Measurement; with no fields the EmptyFields
\* error comes first and the clock is not read.
C17_Timestamp ==
    [][ (builder # None /\ builder' = None) =>
          IF builder[1].fields = <<>>
          THEN result' = "EmptyFields" /\ m' = None /\ ~clock_read'
          ELSE IF ts_arg # None
          THEN /\ result' = "Ok"
               /\ m' # None
               /\ m'[1].timestamp_ms = ts_arg[1]
               /\ ~clock_read'
          ELSE /\ clock_read'
               /\ \/ result' = "SystemTimeError" /\ m' = None
                  \/ /\ result' = "Ok"
                     /\ m' # None
                     /\ Some(m'[1].timestamp_ms) \in ClockOutcomes ]_vars

\* build without a supplied timestamp has read the clock and the read failed
C17_Witness ==
    /\ builder = None
    /\ ts_arg = None
    /\ clock_read
    /\ result = "SystemTimeError"
    /\ m = None

\* C20: add_field and add_tag on a built Measurement never fail and validate
\* nothing; each changes only its own mapping, and there exactly the entry of
\* the given name; add_tag stores the value escaped as MeasurementBuilder::tag
\* does.
C20_AddFrame ==
    /\ []((m # None /\ adds < MaxAdds) => (ENABLED add_tag /\ ENABLED add_field))
    /\ [][ (adds' # adds) =>
             /\ m # None /\ m' # None
             /\ result' = result
             /\ m'[1].measurement_name = m[1].measurement_name
             /\ m'[1].timestamp_ms = m[1].timestamp_ms
             /\ \/ /\ m'[1].fields = m[1].fields
                   /\ \E name \in TagNames, value \in TagInputs :
                        /\ DOMAIN m'[1].tags = DOMAIN m[1].tags \cup { name }
                        /\ m'[1].tags[name] = TagValue_new(value)
                        /\ \A k \in DOMAIN m[1].tags \ { name } : m'[1].tags[k] = m[1].tags[k]
                \/ /\ m'[1].tags = m[1].tags
                   /\ \E name \in FieldNames, value \in FieldInputs :
                        /\ DOMAIN m'[1].fields = DOMAIN m[1].fields \cup { name }
                        /\ m'[1].fields[name] = value
                        /\ \A k \in DOMAIN m[1].fields \ { name } : m'[1].fields[k] = m[1].fields[k] ]_vars

\* after one add call the Measurement holds a single tag, whose value was escaped
C20_Witness ==
    /\ m # None
    /\ adds = 1
    /\ Cardinality(DOMAIN m[1].tags) = 1
    /\ \E k \in DOMAIN m[1].tags : m[1].tags[k] = <<"a", BS, ",", BS, " ", "b", BS, "=", "c">>


----------------------------------------------------------------------------
(* The parameters and lists inside a stage text *)

\* sub stands somewhere in text
Has(text, sub) ==
    \E i \in 1 .. (Len(text) - Len(sub) + 1) : SubSeq(text, i, i + Len(sub) - 1) = sub

\* the first position at which sub stands in text (sub stands in text)
IndexOf(text, sub) ==
    CHOOSE i \in 1 .. (Len(text) - Len(sub) + 1) :
        /\ SubSeq(text, i, i + Len(sub) - 1) = sub
        /\ \A j \in 1 .. (i - 1) : SubSeq(text, j, j + Len(sub) - 1) # sub

\* one row of the stage table: the parameter's label and, if the parameter is
\* supplied, the text written for it
Row(label, written) == [label |-> label, written |-> written]

Quoted(s) == <<DQ>> \o s \o <<DQ>>

OnEmptyWord(e) == IF e = "Keep" THEN <<"k", "e", "e", "p">> ELSE <<"d", "r", "o", "p">>
GroupModeWord(g) == IF g = "By" THEN <<"b", "y">> ELSE <<"e", "x", "c", "e", "p", "t">>

\* the parameters of the stages with optional parameters, in the order of the
\* stage table
StageTable(f) ==
    CASE f.kind = "Range" ->
           << Row(<<"s", "t", "a", "r", "t", ":">>, Some(<<"s", "t", "a", "r", "t", ":", " ">> \o fmt_unsigned(f.start[1]))),
              Row(<<"s", "t", "o", "p", ":">>, IF f.stop = None THEN None
                              ELSE Some(<<"s", "t", "o", "p", ":", " ">> \o fmt_unsigned(f.stop[1]))) >>
      [] f.kind = "Filter" ->
           << Row(<<"f", "n", ":">>, Some(<<"f", "n", ":", " ">> \o f.function[1])),
              Row(<<"o", "n", "E", "m", "p", "t", "y", ":">>, IF f.on_empty = None THEN None
                                 ELSE Some(<<"o", "n", "E", "m", "p", "t", "y", ":", " ">> \o Quoted(OnEmptyWord(f.on_empty[1])))) >>
      [] f.kind = "Group" ->
           << Row(<<"c", "o", "l", "u", "m", "n", "s", ":">>, Some(<<"c", "o", "l", "u", "m", "n", "s", ":", " ", "[">>)),
              Row(<<"m", "o", "d", "e", ":">>, IF f.mode = None THEN None
                              ELSE Some(<<"m", "o", "d", "e", ":">> \o Quoted(GroupModeWord(f.mode[1])))) >>
      [] f.kind \in { "Tail", "Limit" } ->
           << Row(<<"n", ":">>, Some(<<"n", ":", " ">> \o fmt_unsigned(f.n[1]))),
              Row(<<"o", "f", "f", "s", "e", "t", ":">>, IF f.offset = None THEN None
                                ELSE Some(<<"o", "f", "f", "s", "e", "t", ":", " ">> \o fmt_unsigned(f.offset[1]))) >>
      [] f.kind \in { "Count", "Keys" } ->
           << Row(<<"c", "o", "l", "u", "m", "n", ":">>, IF f.column = None THEN None
                                ELSE Some(<<"c", "o", "l", "u", "m", "n", ":", " ">> \o Quoted(f.column[1]))) >>
      [] f.kind = "Integral" ->
           << Row(<<"u", "n", "i", "t", ":">>, Some(<<"u", "n", "i", "t", ":", " ">> \o f.unit[1])),
              Row(<<"c", "o", "l", "u", "m", "n", ":">>, IF f.column = None THEN None
                                ELSE Some(<<"c", "o", "l", "u", "m", "n", ":", " ">> \o Quoted(f.column[1]))),
              Row(<<"t", "i", "m", "e", "C", "o", "l", "u", "m", "n", ":">>, IF f.time_column = None THEN None
                                    ELSE Some(<<"t", "i", "m", "e", "C", "o", "l", "u", "m", "n", ":", " ">> \o Quoted(f.time_column[1]))) >>

OptionalParameterKinds ==
    { "Range", "Filter", "Group", "Tail", "Limit", "Count", "Keys", "Integral" }

\* C18: in the text of a stage with optional parameters, an optional parameter
\* stands if and only if it was supplied, the required parameters always
\* stand, and the parameters stand in the order of the stage table.
C18_OptionalParameters ==
    query # None =>
      \A i \in DOMAIN calls :
        calls[i].f.kind \in OptionalParameterKinds =>
          LET text == query[1].lines[i]
              rows == StageTable(calls[i].f)
          IN  /\ \A r \in DOMAIN rows :
                   IF rows[r].written = None
                   THEN ~Has(text, rows[r].label)
                   ELSE Has(text, rows[r].written[1])
              /\ \A r, t \in DOMAIN rows :
                   (r < t /\ rows[r].written # None /\ rows[t].written # None) =>
                       IndexOf(text, rows[r].label) < IndexOf(text, rows[t].label)
              /\ text[Len(text)] = ")"

\* an integral stage with both optional parameters and a range stage without
\* its optional stop have been appended
C18_Witness ==
    /\ query # None
    /\ Len(calls) = 2
    /\ calls[1].f.kind = "Integral"
    /\ calls[1].f.column # None
    /\ calls[1].f.time_column # None
    /\ calls[2].f.kind = "Range"
    /\ calls[2].f.stop = None

RECURSIVE Listing(_)
\* the texts written one after the other with ", " between neighbours
Listing(texts) ==
    IF texts = <<>> THEN <<>>
    ELSE IF Len(texts) = 1 THEN texts[1]
    ELSE texts[1] \o <<",", " ">> \o Listing(Tail(texts))

\* a list of strings as it stands between the brackets
QuotedListing(v) == Listing([i \in DOMAIN v |-> Quoted(v[i])])

\* the rendering of a scalar: a String in double quotes, the other kinds plain
Scalar(v) ==
    CASE v.kind = "String" -> Quoted(v.s)
      [] v.kind = "Bool" -> IF v.b THEN <<"t", "r", "u", "e">> ELSE <<"f", "a", "l", "s", "e">>
      [] v.kind = "Integer" -> fmt_signed(v.n)
      [] v.kind \in { "UInteger", "Time" } -> fmt_unsigned(v.n)
      [] v.kind = "Float" -> fmt_f64(v.f)

\* C19: a list of strings inside a stage stands as its elements in double
\* quotes joined by ", " in the given order, the empty list as nothing
\* between the brackets; the set of Contains stands as the scalar renderings
\* of its elements joined by ", ", String elements quoted and the other kinds
\* plain, and the value of Contains is rendered as the elements are.
C19_ListRendering ==
    query # None =>
      \A i \in DOMAIN calls :
        LET f == calls[i].f
            text == query[1].lines[i]
        IN  /\ (f.kind \in { "Group", "Keep", "Drop", "Sort" } /\ f.columns # None) =>
                 Has(text, <<"(", "c", "o", "l", "u", "m", "n", "s", ":", " ", "[">> \o QuotedListing(f.columns[1]) \o <<"]">>)
            /\ f.kind = "Pivot" =>
                 /\ Has(text, <<"(", "r", "o", "w", "K", "e", "y", ":", " ", "[">> \o QuotedListing(f.row_key[1]) \o <<"]", ",", " ">>)
                 /\ Has(text, <<",", " ", "c", "o", "l", "u", "m", "n", "K", "e", "y", ":", " ", "[">> \o QuotedListing(f.column_key[1]) \o <<"]", ",", " ">>)
            /\ f.kind = "Contains" =>
                 /\ text = <<"c", "o", "n", "t", "a", "i", "n", "s", "(", "v", "a", "l", "u", "e", ":", " ">> \o Scalar(f.value) \o <<",", " ", "s", "e", "t", ":", " ", "[">>
                           \o Listing([k \in DOMAIN f.set |-> Scalar(f.set[k])]) \o <<"]", ")">>
                 /\ \A k \in DOMAIN f.set :
                      f.set[k].kind # "String" => ~Has(Scalar(f.set[k]), <<DQ>>)

\* a contains stage over two strings and a group stage over two columns have
\* been appended
C19_Witness ==
    /\ query # None
    /\ Len(calls) = 2
    /\ calls[1].f.kind = "Contains"
    /\ calls[1].f.value.kind = "String"
    /\ Len(calls[1].f.set) = 2
    /\ calls[2].f.kind = "Group"
    /\ Len(calls[2].f.columns[1]) = 2


----------------------------------------------------------------------------
(* Rendering as a read *)

\* the text to_line_protocol returns for the Measurement as it is now
CurrentLine == to_line_protocol(m[1], iter_order[1].tags, iter_order[1].fields)

\* C21: rendering mutates nothing: to_line_protocol leaves name, timestamp,
\* tags and fields as they are and Query rendering leaves the stage list as it
\* is, so rendering an unmodified value again returns the same text.
C21_RenderNoMutation ==
    /\ [][ line' # line =>
             /\ m' = m /\ iter_order' = iter_order
             /\ builder' = builder /\ result' = result /\ adds' = adds
             /\ line' = Some(CurrentLine) ]_vars
    /\ [][ (m # None /\ line = Some(CurrentLine) /\ m' = m /\ iter_order' = iter_order)
             => line' = line ]_vars
    /\ [][ (q_out' # q_out /\ q_out' # None) =>
             /\ query # None
             /\ query' = query /\ calls' = calls /\ panicked' = panicked ]_vars
    /\ [][ (q_out # None /\ query' = query) => q_out' = q_out ]_vars
    /\ [](q_out # None => (query # None /\ q_out = Some(Query_fmt(query[1]))))

\* a Measurement of two tags and two fields, changed once after build, has
\* been rendered as it is now
C21_Witness ==
    /\ m # None
    /\ adds = 1
    /\ Cardinality(DOMAIN m[1].tags) = 2
    /\ Cardinality(DOMAIN m[1].fields) = 2
    /\ line = Some(CurrentLine)


----------------------------------------------------------------------------
(* Names are unique in a Measurement *)

\* the names of a list of (name, value) pairs
NamesOf(pairs) == { pairs[i][1] : i \in DOMAIN pairs }

\* the value of the last pair of that name
LastOf(pairs, name) ==
    LET last == CHOOSE i \in DOMAIN pairs :
                    /\ pairs[i][1] = name
                    /\ \A j \in DOMAIN pairs : pairs[j][1] = name => j <= i
    IN  pairs[last][2]

\* C22: build keeps one entry per tag name and per field name, holding the
\* value of the last tag() / field() call of that name, so that as many
\* entries are stored as distinct names were supplied; add_tag / add_field
\* with a name already present overwrites the entry and adds none.
C22_UniqueNames ==
    /\ [][ (builder # None /\ builder' = None /\ result' = "Ok") =>
             LET self == builder[1]
                 built == m'[1]
             IN  /\ DOMAIN built.tags = NamesOf(self.tags)
                 /\ Cardinality(DOMAIN built.tags) = Cardinality(NamesOf(self.tags))
                 /\ \A n \in NamesOf(self.tags) : built.tags[n] = LastOf(self.tags, n)
                 /\ DOMAIN built.fields = NamesOf(self.fields)
                 /\ Cardinality(DOMAIN built.fields) = Cardinality(NamesOf(self.fields))
                 /\ \A n \in NamesOf(self.fields) : built.fields[n] = LastOf(self.fields, n) ]_vars
    /\ [][ (adds' # adds) =>
             LET a == last_add'[1]
                 old == IF a.map = "tags" THEN m[1].tags ELSE m[1].fields
                 new == IF a.map = "tags" THEN m'[1].tags ELSE m'[1].fields
             IN  /\ DOMAIN new = DOMAIN old \cup { a.name }
                 /\ Cardinality(DOMAIN new) =
                      Cardinality(DOMAIN old) + (IF a.name \in DOMAIN old THEN 0 ELSE 1)
                 /\ \A k \in DOMAIN old \ { a.name } : new[k] = old[k]
                 /\ a.map = "tags" => new[a.name] = TagValue_new(a.tag_value)
                 /\ a.map = "fields" => new[a.name] = a.field_value ]_vars

\* the Measurement was rendered with tag1=v1, then add_tag("tag1", "a, b=c")
\* replaced that entry: there is still one tag
C22_Witness ==
    /\ m # None
    /\ adds = 1
    /\ line = Some(<<"m", "1", ",", "t", "a", "g", "1", "=", "v", "1", " ", "f", "1", "=", "t", "r", "u", "e", " ", "1", "0", "0", "0">>)
    /\ last_add # None
    /\ last_add[1].map = "tags"
    /\ last_add[1].name = <<"t", "a", "g", "1">>
    /\ DOMAIN m[1].tags = { <<"t", "a", "g", "1">> }
    /\ m[1].tags[<<"t", "a", "g", "1">>] = <<"a", BS, ",", BS, " ", "b", BS, "=", "c">>


----------------------------------------------------------------------------
(* client.rs: the client-side Query (mod query): new, raw, then, Display *)

MaxClientLines == 3     \* bound on the number of lines of a client-side Query

\* the characters char::is_whitespace accepts, among those of the inputs
White == { " ", NL }

\* str::strip_prefix: the rest of the text after the prefix, or None
strip_prefix(l, prefix) ==
    IF Len(l) >= Len(prefix) /\ SubSeq(l, 1, Len(prefix)) = prefix
    THEN Some(SubSeq(l, Len(prefix) + 1, Len(l)))
    ELSE None

RECURSIVE trim_start(_)
\* str::trim_start
trim_start(l) ==
    IF l # <<>> /\ l[1] \in White THEN trim_start(Tail(l)) ELSE l

RECURSIVE trim_end(_)
\* str::trim_end
trim_end(l) ==
    IF l # <<>> /\ l[Len(l)] \in White THEN trim_end(SubSeq(l, 1, Len(l) - 1)) ELSE l

\* str::trim
trim(l) == trim_end(trim_start(l))

RECURSIVE str_lines(_)
\* str::lines: the text split at every "\n"; a final "\n" ends the last line
\* and does not start another (the inputs hold no "\r")
str_lines(text) ==
    IF text = <<>> THEN <<>>
    ELSE IF \A i \in DOMAIN text : text[i] # NL THEN <<text>>
    ELSE LET at == CHOOSE i \in DOMAIN text :
                       text[i] = NL /\ \A j \in 1 .. (i - 1) : text[j] # NL
         IN  <<SubSeq(text, 1, at - 1)>> \o str_lines(SubSeq(text, at + 1, Len(text)))

\* client Query::new
ClientQuery_new(l) == [lines |-> <<l>>]

\* client Query::raw
ClientQuery_raw(text) ==
    LET ls == str_lines(text)
    IN  [lines |-> [i \in DOMAIN ls |->
                      IF strip_prefix(ls[i], <<"|", ">">>) # None
                      THEN trim(strip_prefix(ls[i], <<"|", ">">>)[1])
                      ELSE trim(ls[i])]]

\* client Query::then
ClientQuery_then(self, l) == [self EXCEPT !.lines = Append(@, l)]

\* impl Display for the client Query
ClientQuery_fmt(self) == join(self.lines, SEP)

\* lines handed to new and then: not empty, no newline, trimmed, no leading "|>"
ClientLines == { <<"a">>, <<"b", " ", "c">>, <<"f", "(", "x", ")">>, <<"k", "(", ")">> }

\* texts handed to raw: a piped query over several lines, in the layout of
\* the doc example and with the "|>" at the start of the line
RawTexts == { <<"a", NL, " ", " ", " ", " ", "|", ">", " ", "b", " ", "c", NL, " ", " ", " ", " ", "|", ">", " ", "k", "(", ")">>, <<"a", NL, "|", ">", " ", "b", " ", "c">>, <<"a">> }

\* a caller of Query::new
client_new ==
    /\ query = None
    /\ \E l \in ClientLines : query' = Some(ClientQuery_new(l))
    /\ q_out' = None
    /\ raw_out' = None
    /\ UNCHANGED <<panicked, calls, mvars, tv_in, tv_out, f_in, f_out, native>>

\* a caller of Query::raw with a text of its own
client_raw ==
    /\ query = None
    /\ \E text \in RawTexts : query' = Some(ClientQuery_raw(text))
    /\ q_out' = None
    /\ raw_out' = None
    /\ UNCHANGED <<panicked, calls, mvars, tv_in, tv_out, f_in, f_out, native>>

\* a caller of Query::then
client_then ==
    /\ query # None
    /\ Len(query[1].lines) < MaxClientLines
    /\ \E l \in ClientLines : query' = Some(ClientQuery_then(query[1], l))
    /\ q_out' = None
    /\ raw_out' = None
    /\ UNCHANGED <<panicked, calls, mvars, tv_in, tv_out, f_in, f_out, native>>

\* a caller rendering the Query (InfluxClient::query: query.to_string())
client_to_string ==
    /\ query # None
    /\ q_out = None
    /\ q_out' = Some(ClientQuery_fmt(query[1]))
    /\ UNCHANGED <<query, panicked, calls, raw_out, mvars, tv_in, tv_out, f_in, f_out, native>>

\* a caller handing the rendered text back to Query::raw
client_reparse ==
    /\ q_out # None
    /\ raw_out = None
    /\ raw_out' = Some(ClientQuery_raw(q_out[1]))
    /\ UNCHANGED <<qvars, mvars, tv_in, tv_out, f_in, f_out, native>>

\* no client-side Query exists yet
InitClient ==
    /\ NoQuery
    /\ NoMeasurement
    /\ NoPure

NextClient ==
    \/ client_new
    \/ client_raw
    \/ client_then
    \/ client_to_string
    \/ client_reparse

SpecClient == InitClient /\ [][NextClient]_vars

\* the lines the round trip is stated for
RoundTripLine(l) ==
    /\ l # <<>>
    /\ \A i \in DOMAIN l : l[i] # NL
    /\ trim(l) = l
    /\ strip_prefix(l, <<"|", ">">>) = None

\* C23: for a client-side Query whose lines are not empty, hold no newline,
\* are trimmed and do not start with "|>", Query::raw of the rendered text
\* equals the Query.
C23_RawRoundTrip ==
    (raw_out # None /\ \A i \in DOMAIN query[1].lines : RoundTripLine(query[1].lines[i]))
        => raw_out = query

====
